---- MODULE Spec2Model ----
(***************************************************************************)
(* Verification model of the terminal editor core of offline-judge-cli     *)
(* (src/editor): the DirtyLines interval set (algorithms.rs) and the       *)
(* Editor layout cache, cursor, selection and command engine (editor.rs).  *)
(*                                                                         *)
(* Conventions.  Vec indices are 0-based in the source; the operators keep *)
(* the source's 0-based indices and read a sequence s at index i as        *)
(* s[i + 1].  A character is a one-element token: "a" (alphanumeric),      *)
(* "." (symbol), " " (blank), "\n" (line feed) and "U+4E2D" (the CJK       *)
(* ideograph U+4E2D, display width 2).                                     *)
(***************************************************************************)
EXTENDS Integers, Sequences, FiniteSets, TLC

VARIABLES
    \* ---- DirtyLines (algorithms.rs) ----
    ranges,      \* DirtyLines.ranges : Vec<(usize, usize)>
    passed,      \* history: the lines of the ranges handed to mark, read literally
    normed,      \* history: the same, an empty range counted as its start line
    scenario,    \* "free", or the name of the unit test being replayed
    todo,        \* the calls of the replayed unit test still to run
    lastCall,    \* the last DirtyLines call made (NoCall initially)
    lastOut,     \* what the last iterator call collected
    \* ---- Editor (editor.rs) ----
    ed,          \* the Editor struct: text, cursor, selection_anchor, tmp_x,
                 \* terminal_width, terminal_height, scroll_offset,
                 \* cumulative_visual_heights, is_dirty, full_redraw_request,
                 \* dirty_lines, should_quit; and halt: "none" while the process
                 \* runs, "panic" after a panic, "error" after run() returned Err
    pc,          \* where run() stands: "start" before it is called, "top" at
                 \* the head of its loop, "read" at the blocking event::read,
                 \* "poll" in the drain loop, "done" once the process is over
                 \* ("none" when no editor runs, "cache" for the cache alone)
    obs          \* what was last observed of the editor: the number of events
                 \* handled and the lines last drawn, or the last direct call
                 \* and its result

dlVars == <<ranges, passed, normed, scenario, todo, lastCall, lastOut>>
edVars == <<ed, pc, obs>>
vars == <<ranges, passed, normed, scenario, todo, lastCall, lastOut, ed, pc, obs>>

(***************************************************************************)
(* Bounds                                                                  *)
(***************************************************************************)
\* usize::MAX, scaled down so that the saturating arithmetic is reachable.
UsizeMax == 63
\* Free marks and queries take their end points from 0..MaxLine and from
\* the two largest usize values.
MaxLine == 2

Lines == (0 .. MaxLine) \cup {UsizeMax - 1, UsizeMax}

Min(a, b) == IF a < b THEN a ELSE b
Max(a, b) == IF a > b THEN a ELSE b

\* usize::saturating_sub / usize::saturating_add
SatSub(a, b) == IF a >= b THEN a - b ELSE 0
SatAdd(a, b) == IF a + b > UsizeMax THEN UsizeMax ELSE a + b

(***************************************************************************)
(* MarkIndex: a single index, a half-open range or a closed range.         *)
(***************************************************************************)
Single(n)       == [kind |-> "usize", start |-> n, end |-> n]
HalfOpen(s, e)  == [kind |-> "range", start |-> s, end |-> e]
Closed(s, e)    == [kind |-> "inclusive", start |-> s, end |-> e]

\* Range::is_empty / RangeInclusive::is_empty
IsEmptyIndex(idx) ==
    CASE idx.kind = "usize"     -> FALSE
      [] idx.kind = "range"     -> ~(idx.start < idx.end)
      [] idx.kind = "inclusive" -> ~(idx.start <= idx.end)

\* The lines a MarkIndex denotes, read literally (an empty range has none).
IndexLines(idx) ==
    CASE idx.kind = "usize"     -> {idx.start}
      [] idx.kind = "range"     -> {l \in 0 .. UsizeMax : idx.start <= l /\ l < idx.end}
      [] idx.kind = "inclusive" -> {l \in 0 .. UsizeMax : idx.start <= l /\ l <= idx.end}

ToRange_EmptyMarksEnd(idx) ==
    CASE idx.kind = "usize"     -> <<idx.start, idx.start>>
      [] idx.kind = "range"     -> IF IsEmptyIndex(idx)
                                   THEN <<idx.end, idx.end>>
                                   ELSE <<idx.start, idx.end - 1>>
      [] idx.kind = "inclusive" -> IF IsEmptyIndex(idx)
                                   THEN <<idx.end, idx.end>>
                                   ELSE <<idx.start, idx.end>>

ToRange_EmptyStaysEmpty(idx) ==
    CASE idx.kind = "usize"     -> <<idx.start, idx.start>>
      [] idx.kind = "range"     -> IF IsEmptyIndex(idx)
                                   THEN <<idx.start + 1, idx.start>>
                                   ELSE <<idx.start, idx.end - 1>>
      [] idx.kind = "inclusive" -> IF IsEmptyIndex(idx)
                                   THEN <<idx.start + 1, idx.start>>
                                   ELSE <<idx.start, idx.end>>

\* MarkIndex::to_range: the closed pair (start, end) the index is turned into.
ToRange(idx) ==
    CASE idx.kind = "usize"     -> <<idx.start, idx.start>>
      [] idx.kind = "range"     -> IF IsEmptyIndex(idx)
                                   THEN <<idx.start, idx.start>>
                                   ELSE <<idx.start, idx.end - 1>>
      [] idx.kind = "inclusive" -> IF IsEmptyIndex(idx)
                                   THEN <<idx.start, idx.start>>
                                   ELSE <<idx.start, idx.end>>

(***************************************************************************)
(* slice::partition_point and slice::binary_search_by, as binary searches  *)
(* over the per-element results of the closure.                            *)
(***************************************************************************)
RECURSIVE PartitionLoop(_, _, _)
PartitionLoop(flags, lo, hi) ==
    IF lo >= hi THEN lo
    ELSE LET mid == lo + ((hi - lo) \div 2)
         IN  IF flags[mid + 1]
             THEN PartitionLoop(flags, mid + 1, hi)
             ELSE PartitionLoop(flags, lo, mid)

PartitionPoint(flags) == PartitionLoop(flags, 0, Len(flags))

RECURSIVE BinarySearchLoop(_, _, _)
BinarySearchLoop(ords, lo, hi) ==
    IF lo >= hi THEN [ok |-> FALSE, idx |-> lo]
    ELSE LET mid == lo + ((hi - lo) \div 2)
         IN  CASE ords[mid + 1] = "Equal"   -> [ok |-> TRUE, idx |-> mid]
               [] ords[mid + 1] = "Less"    -> BinarySearchLoop(ords, mid + 1, hi)
               [] ords[mid + 1] = "Greater" -> BinarySearchLoop(ords, lo, mid)

BinarySearchBy(ords) == BinarySearchLoop(ords, 0, Len(ords))

(***************************************************************************)
(* DirtyLines::mark_inclusive_range                                        *)
(***************************************************************************)
SearchStart_NoAdjacent(start) == start

\* let search_start = start.saturating_sub(1);
SearchStart(start) == SatSub(start, 1)

\* The while loop: extends (new_start, new_end) over the intervals from
\* i_end on whose start is at most search_end_boundary.
RECURSIVE MergeLoop(_, _, _, _, _)
MergeLoop(rs, i_end, new_start, new_end, search_end_boundary) ==
    IF i_end < Len(rs) /\ ~(rs[i_end + 1][1] > search_end_boundary)
    THEN MergeLoop(rs, i_end + 1,
                   Min(new_start, rs[i_end + 1][1]),
                   Max(new_end, rs[i_end + 1][2]),
                   search_end_boundary)
    ELSE [i_end |-> i_end, new_start |-> new_start, new_end |-> new_end]

MarkInclusiveRange(rs, start, end) ==
    IF start > end THEN rs
    ELSE
      LET search_start == SearchStart(start)
          i_start == PartitionPoint([k \in 1 .. Len(rs) |-> rs[k][2] < search_start])
          search_end_boundary == SatAdd(end, 1)
          m == MergeLoop(rs, i_start, start, end, search_end_boundary)
          num_to_remove == m.i_end - i_start
          merged == <<m.new_start, m.new_end>>
      IN  IF num_to_remove > 0
          THEN SubSeq(rs, 1, i_start) \o <<merged>> \o SubSeq(rs, m.i_end + 1, Len(rs))
          ELSE SubSeq(rs, 1, i_start) \o <<merged>> \o SubSeq(rs, i_start + 1, Len(rs))

\* DirtyLines::mark
Mark(rs, idx) == MarkInclusiveRange(rs, ToRange(idx)[1], ToRange(idx)[2])

IsMarked_StartOnly(rs, line) ==
    BinarySearchBy([k \in 1 .. Len(rs) |->
        IF line < rs[k][1] THEN "Greater"
        ELSE IF line > rs[k][1] THEN "Less" ELSE "Equal"]).ok

\* DirtyLines::is_marked
IsMarked(rs, line) ==
    BinarySearchBy([k \in 1 .. Len(rs) |->
        IF line < rs[k][1] THEN "Greater"
        ELSE IF line > rs[k][2] THEN "Less" ELSE "Equal"]).ok

(***************************************************************************)
(* DirtyLines::iter_range and DirtyRangeIter::next, collected              *)
(***************************************************************************)
RECURSIVE DirtyRangeIterCollect(_, _, _)
DirtyRangeIterCollect(rs, current, end) ==
    IF current < end
    THEN <<<<current, IsMarked(rs, current)>>>> \o DirtyRangeIterCollect(rs, current + 1, end)
    ELSE <<>>

IterRange_NoStatus(rs, idx) ==
    LET r == ToRange(idx)
    IN  [k \in 1 .. (SatAdd(r[2], 1) - r[1]) |-> <<r[1] + k - 1, FALSE>>]

IterRange(rs, idx) ==
    LET r == ToRange(idx)
        end_exclusive == SatAdd(r[2], 1)
    IN  DirtyRangeIterCollect(rs, r[1], end_exclusive)

(***************************************************************************)
(* DirtyLines::iter_dirty_ranges and DirtyRangesIter::next, collected      *)
(***************************************************************************)
\* The while loop that moves actual_start_index past intervals ending
\* before query_start.
RECURSIVE SkipLoop(_, _, _)
SkipLoop(rs, i, query_start) ==
    IF i < Len(rs) /\ rs[i + 1][2] < query_start
    THEN SkipLoop(rs, i + 1, query_start)
    ELSE i

Intersection_Unclipped(s, e, query_start, query_end) == <<s, e>>

\* (intersection_start, intersection_end) of DirtyRangesIter::next
Intersection(s, e, query_start, query_end) ==
    <<Max(s, query_start), Min(e, SatSub(query_end, 1))>>

\* One call of next() on the remaining slice `rest`: what it returns and
\* the slice it leaves.
RECURSIVE DirtyRangesNext(_, _, _)
DirtyRangesNext(rest, query_start, query_end) ==
    IF rest = <<>> THEN [some |-> FALSE, rest |-> <<>>]
    ELSE LET s == Head(rest)[1]
             e == Head(rest)[2]
             x == Intersection(s, e, query_start, query_end)
         IN  IF s >= query_end THEN [some |-> FALSE, rest |-> Tail(rest)]
             ELSE IF x[1] <= x[2] THEN [some |-> TRUE, item |-> x, rest |-> Tail(rest)]
             ELSE DirtyRangesNext(Tail(rest), query_start, query_end)

\* Iterator::collect: calls next() until it returns None.
RECURSIVE DirtyRangesCollect(_, _, _)
DirtyRangesCollect(rest, query_start, query_end) ==
    LET n == DirtyRangesNext(rest, query_start, query_end)
    IN  IF n.some
        THEN <<n.item>> \o DirtyRangesCollect(n.rest, query_start, query_end)
        ELSE <<>>

IterDirtyRanges(rs, idx) ==
    LET r == ToRange(idx)
        query_start == r[1]
        query_end_exclusive == SatAdd(r[2], 1)
        start_index == BinarySearchBy([k \in 1 .. Len(rs) |->
                           IF rs[k][2] < query_start THEN "Less"
                           ELSE IF rs[k][2] > query_start THEN "Greater"
                           ELSE "Equal"]).idx
        actual_start_index == SkipLoop(rs, start_index, query_start)
    IN  DirtyRangesCollect(SubSeq(rs, actual_start_index + 1, Len(rs)),
                           query_start, query_end_exclusive)

(***************************************************************************)
(* The unit tests of algorithms.rs (mod tests), as call lists.             *)
(***************************************************************************)
\* A mark call is recorded by whether its index was an empty range and by
\* the start of the index; an iterator call by its index.
MarkOp(idx)            == [op |-> "mark", empty |-> IsEmptyIndex(idx), start |-> idx.start]
IterRangeOp(idx)       == [op |-> "iter_range", idx |-> idx]
IterDirtyRangesOp(idx) == [op |-> "iter_dirty_ranges", idx |-> idx]
ClearOp                == [op |-> "clear"]
NoCall                 == [op |-> "none"]

\* The calls of the unit tests: <<operation, index>>.
M(idx)  == <<"mark", idx>>
IR(idx) == <<"iter_range", idx>>
ID(idx) == <<"iter_dirty_ranges", idx>>

TestNames == {"test_mark_single_line", "test_mark_range_half_open",
              "test_mark_range_inclusive", "test_merging_complex",
              "test_is_dirty_accuracy", "test_iter_with_inclusive_query",
              "test_dirty_ranges_iter_with_inclusive_query"}

TestCalls(name) ==
    CASE name = "test_mark_single_line" ->
           <<M(Single(5)), M(Single(10)), M(Single(6))>>
      [] name = "test_mark_range_half_open" ->
           <<M(HalfOpen(5, 8)), M(HalfOpen(10, 10))>>
      [] name = "test_mark_range_inclusive" ->
           <<M(Closed(5, 8)), M(Closed(10, 9))>>
      [] name = "test_merging_complex" ->
           <<M(HalfOpen(10, 15)), M(HalfOpen(30, 35)), M(Single(50)),
             M(Closed(13, 31)), M(HalfOpen(34, 36)), M(HalfOpen(5, 55))>>
      [] name = "test_is_dirty_accuracy" ->
           <<M(Closed(10, 19)), M(Single(30))>>
      [] name = "test_iter_with_inclusive_query" ->
           <<M(HalfOpen(5, 8)), M(Single(10)), IR(Closed(4, 8))>>
      [] name = "test_dirty_ranges_iter_with_inclusive_query" ->
           <<M(HalfOpen(5, 10)), M(HalfOpen(15, 20)),
             ID(Closed(8, 16))>>
      [] OTHER -> <<>>

(***************************************************************************)
(* The DirtyLines state machine                                            *)
(***************************************************************************)
\* The indices a free call may pass.
FreeIndices ==
    {Single(n) : n \in Lines}
      \cup {HalfOpen(s, e) : s \in Lines, e \in Lines}
      \cup {Closed(s, e)   : s \in Lines, e \in Lines}

\* The lines a mark of idx is expected to add when an empty range counts as
\* the single line at its start.
StartOrLines(idx) == IF IsEmptyIndex(idx) THEN {idx.start} ELSE IndexLines(idx)

\* DirtyLines::new, and the test to replay (or "free" for arbitrary calls).
InitDirty ==
    /\ ranges = <<>>
    /\ passed = {}
    /\ normed = {}
    /\ scenario \in {"free"} \cup TestNames
    /\ todo = TestCalls(scenario)
    /\ lastCall = NoCall
    /\ lastOut = <<>>
    /\ ed = <<>>
    /\ pc = "none"
    /\ obs = <<>>

\* dl.mark(idx), with the history of what was handed in.
DoMark(idx) ==
    /\ ranges' = Mark(ranges, idx)
    /\ passed' = passed \cup IndexLines(idx)
    /\ normed' = normed \cup StartOrLines(idx)
    /\ lastCall' = MarkOp(idx)
    /\ lastOut' = <<>>
    /\ UNCHANGED edVars

\* dl.clear()
DoClear ==
    /\ ranges' = <<>>
    /\ passed' = {}
    /\ normed' = {}
    /\ lastCall' = ClearOp
    /\ lastOut' = <<>>
    /\ UNCHANGED edVars

\* dl.iter_range(idx).collect()
DoIterRange(idx) ==
    /\ lastOut' = IterRange(ranges, idx)
    /\ lastCall' = IterRangeOp(idx)
    /\ UNCHANGED <<ranges, passed, normed>>
    /\ UNCHANGED edVars

\* dl.iter_dirty_ranges(idx).collect()
DoIterDirtyRanges(idx) ==
    /\ lastOut' = IterDirtyRanges(ranges, idx)
    /\ lastCall' = IterDirtyRangesOp(idx)
    /\ UNCHANGED <<ranges, passed, normed>>
    /\ UNCHANGED edVars

\* mark with any of the three index kinds
MarkCall ==
    /\ scenario = "free"
    /\ \E idx \in FreeIndices : DoMark(idx)
    /\ UNCHANGED <<scenario, todo>>

\* mark with a single line (MarkIndex for usize)
MarkLineCall ==
    /\ scenario = "free"
    /\ \E n \in Lines : DoMark(Single(n))
    /\ UNCHANGED <<scenario, todo>>

ClearCall ==
    /\ scenario = "free"
    /\ DoClear
    /\ UNCHANGED <<scenario, todo>>

IterRangeCall ==
    /\ scenario = "free"
    /\ \E idx \in FreeIndices : DoIterRange(idx)
    /\ UNCHANGED <<scenario, todo>>

IterDirtyRangesCall ==
    /\ scenario = "free"
    /\ \E idx \in FreeIndices : DoIterDirtyRanges(idx)
    /\ UNCHANGED <<scenario, todo>>

\* The next call of the replayed unit test.
TestStep ==
    /\ scenario # "free"
    /\ todo # <<>>
    /\ CASE Head(todo)[1] = "mark"              -> DoMark(Head(todo)[2])
         [] Head(todo)[1] = "iter_range"        -> DoIterRange(Head(todo)[2])
         [] Head(todo)[1] = "iter_dirty_ranges" -> DoIterDirtyRanges(Head(todo)[2])
    /\ todo' = Tail(todo)
    /\ UNCHANGED scenario

\* Marks and clears, with the history of what was marked.
NextDirtyLines == MarkCall \/ ClearCall \/ TestStep
SpecDirtyLines == InitDirty /\ [][NextDirtyLines]_vars

\* Single-line marks, clears and the two iterator queries.
NextDirtyQuery == MarkLineCall \/ ClearCall \/ IterRangeCall \/ IterDirtyRangesCall \/ TestStep
SpecDirtyQuery == InitDirty /\ [][NextDirtyQuery]_vars

(***************************************************************************)
(* DirtyLines: properties                                                  *)
(***************************************************************************)
AllLines == 0 .. UsizeMax

\* The lines an interval list covers.
Covered(rs) == {l \in AllLines : \E k \in 1 .. Len(rs) : rs[k][1] <= l /\ l <= rs[k][2]}

\* Sorted by start, each start <= end, consecutive intervals neither
\* overlapping nor touching.
WellFormed(rs) ==
    /\ \A k \in 1 .. Len(rs) : rs[k][1] <= rs[k][2]
    /\ \A k \in 1 .. Len(rs) - 1 : rs[k][2] + 1 < rs[k + 1][1]

\* The maximal contiguous runs of a set of lines, as closed pairs.
Runs(S) ==
    {<<a, b>> \in S \X S :
        /\ a <= b
        /\ \A l \in a .. b : l \in S
        /\ (a - 1) \notin S
        /\ (b + 1) \notin S}

\* rs lists exactly the maximal runs of S, in ascending order.
IsRunsOf(rs, S) ==
    /\ WellFormed(rs)
    /\ {rs[k] : k \in 1 .. Len(rs)} = Runs(S)

Finished(name) == scenario = name /\ todo = <<>>

\* C1: after any sequence of mark calls (single index, half-open or closed
\* range, any order) from the empty set the intervals are sorted by start,
\* pairwise disjoint, have start <= end and no two consecutive ones touch;
\* mark(5), mark(10), mark(6) leaves exactly [(5,6),(10,10)].
C1_MergeInvariant ==
    /\ WellFormed(ranges)
    /\ Finished("test_mark_single_line") => ranges = <<<<5, 6>>, <<10, 10>>>>
    /\ Finished("test_merging_complex") => ranges = <<<<5, 54>>>>

C1_Witness == Finished("test_mark_single_line") /\ Len(ranges) = 2

\* C2 as stated: is_marked(x) holds exactly for the lines of the ranges
\* handed to mark since the last clear (an empty range has no lines), the
\* interval list depends on that set alone, and nothing is marked after
\* clear().
C2_Original ==
    /\ \A x \in AllLines : IsMarked(ranges, x) <=> x \in passed
    /\ IsRunsOf(ranges, passed)
    /\ lastCall.op = "clear" => \A x \in AllLines : ~IsMarked(ranges, x)

\* C2 amended: the same, with an empty range s..s (or a reversed closed
\* range) counted as the single line s.
C2_MarkedIffInUnion ==
    /\ \A x \in AllLines : IsMarked(ranges, x) <=> x \in normed
    /\ IsRunsOf(ranges, normed)
    /\ lastCall.op = "clear" => \A x \in AllLines : ~IsMarked(ranges, x)

C2_Witness ==
    /\ scenario = "free"
    /\ lastCall.op = "mark"
    /\ Len(ranges) >= 2
    /\ normed # passed

\* C4 as stated: mark with an empty range leaves the interval set as it was.
C4_Original ==
    [][(lastCall'.op = "mark" /\ lastCall'.empty) => ranges' = ranges]_vars

\* C4 amended: mark with an empty range whose start is s acts as mark(s):
\* it leaves the set as it was exactly when s is already marked.
C4_EmptyRangeActsAsStart ==
    [][(lastCall'.op = "mark" /\ lastCall'.empty) =>
          /\ ranges' = Mark(ranges, Single(lastCall'.start))
          /\ (ranges' = ranges) <=> IsMarked(ranges, lastCall'.start)]_vars

C4_Witness ==
    /\ scenario = "free"
    /\ lastCall.op = "mark"
    /\ lastCall.empty
    /\ ranges = <<<<lastCall.start, lastCall.start>>>>

\* C5: mark with an empty half-open range s..s or a reversed closed range
\* marks exactly the single line s; mark(5..8), mark(10..10) leaves
\* [(5,7),(10,10)] and mark(5..=8), mark(10..=9) leaves [(5,8),(10,10)].
C5_EmptyRangeMarksStart ==
    [][/\ (lastCall'.op = "mark" /\ lastCall'.empty) =>
             Covered(ranges') = Covered(ranges) \cup {lastCall'.start}
       /\ (scenario' = "test_mark_range_half_open" /\ todo' = <<>>) =>
             ranges' = <<<<5, 7>>, <<10, 10>>>>
       /\ (scenario' = "test_mark_range_inclusive" /\ todo' = <<>>) =>
             ranges' = <<<<5, 8>>, <<10, 10>>>>]_vars

C5_Witness == Finished("test_mark_range_inclusive") /\ lastCall.empty

\* The lines of a query index, read literally and in ascending order, each
\* with whether the set covers it.
LinesWithStatus(rs, lo, hi) ==
    [k \in 1 .. (hi + 1 - lo) |-> <<lo + k - 1, (lo + k - 1) \in Covered(rs)>>]

LiteralHi(idx) == IF idx.kind = "range" THEN idx.end - 1 ELSE idx.end

\* The closed span the code reads a query index as: an empty range is the
\* single line at its start, and the line usize::MAX is left out.
SpanLo(idx) == idx.start
SpanHi(idx) == Min(IF IsEmptyIndex(idx) THEN idx.start ELSE LiteralHi(idx), UsizeMax - 1)
SpanLines(idx) == {l \in AllLines : SpanLo(idx) <= l /\ l <= SpanHi(idx)}

\* C3 as stated: iter_dirty_ranges(R) yields, in ascending order, exactly
\* the maximal runs of (marked set /\ R); an empty R yields nothing.
C3_Original ==
    lastCall.op = "iter_dirty_ranges" =>
        IsRunsOf(lastOut, Covered(ranges) \cap IndexLines(lastCall.idx))

\* C3 amended: the same for R read as the closed span to_range gives, where
\* an empty R is the single line at its start, and without the line
\* usize::MAX, which is never reported.
C3_DirtyRangesAreRuns ==
    lastCall.op = "iter_dirty_ranges" =>
        IsRunsOf(lastOut, Covered(ranges) \cap SpanLines(lastCall.idx))

C3_Witness ==
    /\ Finished("test_dirty_ranges_iter_with_inclusive_query")
    /\ lastOut = <<<<8, 9>>, <<15, 16>>>>

\* C6 as stated: iter_range(R) yields every line of R once, ascending, each
\* with is_marked(line), and nothing outside R.
C6_Original ==
    lastCall.op = "iter_range" =>
        lastOut = LinesWithStatus(ranges, lastCall.idx.start, LiteralHi(lastCall.idx))

\* C6 amended: the same for R read as the closed span to_range gives (an
\* empty R is the single line at its start) without the line usize::MAX,
\* which is never yielded; the call leaves the set unchanged.
C6_IterRangeYieldsSpan ==
    lastCall.op = "iter_range" =>
        lastOut = LinesWithStatus(ranges, SpanLo(lastCall.idx), SpanHi(lastCall.idx))

C6_Witness ==
    /\ Finished("test_iter_with_inclusive_query")
    /\ lastOut = <<<<4, FALSE>>, <<5, TRUE>>, <<6, TRUE>>, <<7, TRUE>>, <<8, FALSE>>>>

(***************************************************************************)
(* Editor (editor.rs).  The document is a sequence of characters; the      *)
(* operators below are the ropey calls the editor makes on it.             *)
(***************************************************************************)
\* Option::None for the Option<usize> fields.
None == -1

LINE_NUMBER_WIDTH == 7
STATUS_BAR_HEIGHT == 1
UNBOUNDED_WIDTH == 1000000000

LF == "\n"
CJK == "U+4E2D"

\* UnicodeWidthChar::width_cjk().unwrap_or(1): a control character has no
\* width and counts 1.
CharWidth(ch) == IF ch = CJK THEN 2 ELSE 1

\* Rope::len_chars
LenChars(t) == Len(t)

\* Rope::char_to_line: the number of line breaks before char index idx.
CharToLine(t, idx) == Cardinality({i \in 1 .. idx : t[i] = LF})

\* Rope::len_lines
LenLines(t) == CharToLine(t, Len(t)) + 1

\* Rope::line_to_char: the char index at which line `line` starts
\* (len_chars for line = len_lines).
LineToChar(t, line) ==
    IF line = 0 THEN 0
    ELSE IF line >= LenLines(t) THEN Len(t)
    ELSE CHOOSE i \in 1 .. Len(t) : t[i] = LF /\ CharToLine(t, i) = line

\* Rope::line: the line with its line break, if it has one.
Line(t, line) == SubSeq(t, LineToChar(t, line) + 1, LineToChar(t, line + 1))

\* Rope::slice(start..end), Rope::remove(start..end), Rope::insert(idx, s)
Slice(t, start, end) == SubSeq(t, start + 1, end)
Remove(t, start, end) == SubSeq(t, 1, start) \o SubSeq(t, end + 1, Len(t))
Insert(t, idx, s) == SubSeq(t, 1, idx) \o s \o SubSeq(t, idx + 1, Len(t))

\* RopeSliceExt::len_chars_without_ending (the alphabet has no "\r")
LenCharsWithoutEnding(line) ==
    IF Len(line) > 0 /\ line[Len(line)] = LF THEN Len(line) - 1 ELSE Len(line)

(***************************************************************************)
(* RopeSliceExt::chunk_by_width_cjk                                        *)
(***************************************************************************)
\* The inner while loop if it broke off as soon as the row is full.
RECURSIVE FillRow_StopsWhenFull(_, _, _, _)
FillRow_StopsWhenFull(line, pos, current_width, max_width) ==
    IF pos <= Len(line) /\ ~(current_width + CharWidth(line[pos]) >= max_width)
    THEN FillRow_StopsWhenFull(line, pos + 1, current_width + CharWidth(line[pos]), max_width)
    ELSE pos

\* The inner while loop: the index (1-based, exclusive) up to which the
\* characters from pos on fit into the row.
RECURSIVE FillRow(_, _, _, _)
FillRow(line, pos, current_width, max_width) ==
    IF pos <= Len(line) /\ ~(current_width + CharWidth(line[pos]) > max_width)
    THEN FillRow(line, pos + 1, current_width + CharWidth(line[pos]), max_width)
    ELSE pos

\* One from_fn call per chunk, until the characters are used up.
RECURSIVE ChunkLoop(_, _, _)
ChunkLoop(line, start, max_width) ==
    IF start > Len(line) THEN <<>>
    ELSE LET filled == FillRow(line, start, 0, max_width)
             end == IF filled = start THEN start + 1 ELSE filled
         IN  <<SubSeq(line, start, end - 1)>> \o ChunkLoop(line, end, max_width)

ChunkByWidthCjk(line, max_width) ==
    IF Len(line) = 0 \/ max_width = 0 THEN <<line>>
    ELSE ChunkLoop(line, 1, max_width)

(***************************************************************************)
(* Editor: construction and geometry                                       *)
(***************************************************************************)
\* Editor::from_rope, with the terminal size terminal::size() reported.
FromRope(rope, cols, rows) ==
    [text |-> rope,
     cursor |-> 0,
     selection_anchor |-> None,
     tmp_x |-> None,
     terminal_width |-> cols,
     terminal_height |-> rows,
     scroll_offset |-> [logical_line |-> 0, visual_offset_in_line |-> 0],
     cumulative_visual_heights |-> <<0>>,
     is_dirty |-> TRUE,
     full_redraw_request |-> TRUE,
     dirty_lines |-> {},
     should_quit |-> FALSE,
     keymap |-> {},
     halt |-> "none"]

\* A panic: the process stops with the state it had.
Panic(e) == [e EXCEPT !.halt = "panic"]

\* Editor::content_width
ContentWidth(e) ==
    LET w == SatSub(SatSub(e.terminal_width, LINE_NUMBER_WIDTH), 1)
    IN  IF w = 0 THEN UNBOUNDED_WIDTH ELSE w

\* Editor::content_height
ContentHeight(e) == SatSub(e.terminal_height, STATUS_BAR_HEIGHT)

\* max(1, line(i).chunk_by_width_cjk(content_width).count())
LineHeight(t, line_idx, content_width) ==
    Max(1, Len(ChunkByWidthCjk(Line(t, line_idx), content_width)))

(***************************************************************************)
(* Editor::rebuild_height_cache and Editor::update_height_cache            *)
(***************************************************************************)
\* The for loop of rebuild_height_cache: the cumulative heights of the
\* lines i .. len_lines - 1, starting from total_height.
RECURSIVE RebuildLoop(_, _, _, _)
RebuildLoop(t, i, total_height, content_width) ==
    IF i >= LenLines(t) THEN <<>>
    ELSE LET h == total_height + LineHeight(t, i, content_width)
         IN  <<h>> \o RebuildLoop(t, i + 1, h, content_width)

\* The vector rebuild_height_cache computes for a document at a width.
RebuildH(t, content_width) == <<0>> \o RebuildLoop(t, 0, 0, content_width)

RebuildHeightCache(e) ==
    [e EXCEPT !.cumulative_visual_heights = RebuildH(e.text, ContentWidth(e))]

\* new_heights: the heights of the lines start_line .. start_line + n - 1.
NewHeights(t, start_line, n, content_width) ==
    [i \in 1 .. n |-> LineHeight(t, start_line + i - 1, content_width)]

RECURSIVE SumSeq(_)
SumSeq(q) == IF q = <<>> THEN 0 ELSE Head(q) + SumSeq(Tail(q))

\* new_cumulative_heights: the running sums of new_heights from `base`.
RECURSIVE Cumulate(_, _)
Cumulate(base, hs) ==
    IF hs = <<>> THEN <<>>
    ELSE <<base + Head(hs)>> \o Cumulate(base + Head(hs), Tail(hs))

ShiftTail_Never(H, from, delta) == H

\* The final loop: adds delta to every entry from index `from` on (u32
\* arithmetic through i64, which cannot leave the range here).
ShiftTail(H, from, delta) ==
    [i \in 1 .. Len(H) |-> IF i - 1 >= from /\ delta # 0 THEN H[i] + delta ELSE H[i]]

\* Editor::update_height_cache: [e |-> the editor after it, delta |-> what
\* it returns].  An index past the end of the vector, a line past the end of
\* the document, a splice range past the end of the vector and a u32
\* subtraction below zero panic.
UpdateHeightCache(e, start_line, old_line_count, new_line_count) ==
    LET H == e.cumulative_visual_heights
        t == e.text
    IN  IF start_line + old_line_count >= Len(H)
           \/ H[start_line + old_line_count + 1] < H[start_line + 1]
           \/ start_line + new_line_count > LenLines(t)
        THEN [e |-> Panic(e), delta |-> 0]
        ELSE
          LET old_span_height == H[start_line + old_line_count + 1] - H[start_line + 1]
              new_heights == NewHeights(t, start_line, new_line_count, ContentWidth(e))
              new_span_height == SumSeq(new_heights)
              delta == new_span_height - old_span_height
              new_cumulative_heights == Cumulate(H[start_line + 1], new_heights)
              spliced == SubSeq(H, 1, start_line + 1)
                           \o new_cumulative_heights
                           \o SubSeq(H, start_line + 1 + old_line_count + 1, Len(H))
          IN  [e |-> [e EXCEPT !.cumulative_visual_heights =
                          ShiftTail(spliced, start_line + 1 + new_line_count, delta)],
               delta |-> delta]

(***************************************************************************)
(* Coordinate mapping                                                      *)
(***************************************************************************)
\* Editor::get_total_visual_height_between
GetTotalVisualHeightBetween(e, start, end) ==
    LET H == e.cumulative_visual_heights
    IN  IF end >= Len(H) \/ start > end THEN 0 ELSE H[end + 1] - H[start + 1]

\* Editor::get_visual_height_for_line
GetVisualHeightForLine(e, line_idx) ==
    LET H == e.cumulative_visual_heights
    IN  IF line_idx + 1 >= Len(H) THEN 1 ELSE H[line_idx + 2] - H[line_idx + 1]

ScrollOffset(line, off) == [logical_line |-> line, visual_offset_in_line |-> off]

\* Editor::logical_to_absolute_visual
LogicalToAbsoluteVisual(e, offset) ==
    GetTotalVisualHeightBetween(e, 0, offset.logical_line) + offset.visual_offset_in_line

AbsoluteVisualToLogical_NoClamp(e, abs_visual_y) ==
    LET H == e.cumulative_visual_heights
        logical_line == SatSub(PartitionPoint([k \in 1 .. Len(H) |-> H[k] <= abs_visual_y]), 1)
    IN  ScrollOffset(logical_line,
                     SatSub(abs_visual_y, GetTotalVisualHeightBetween(e, 0, logical_line)))

\* Editor::absolute_visual_to_logical
AbsoluteVisualToLogical(e, abs_visual_y) ==
    IF LenLines(e.text) = 0 \/ abs_visual_y = 0 THEN ScrollOffset(0, 0)
    ELSE
      LET H == e.cumulative_visual_heights
          found == SatSub(PartitionPoint([k \in 1 .. Len(H) |-> H[k] <= abs_visual_y]), 1)
          logical_line == Min(found, LenLines(e.text) - 1)
          height_before == GetTotalVisualHeightBetween(e, 0, logical_line)
      IN  ScrollOffset(logical_line, SatSub(abs_visual_y, height_before))

(***************************************************************************)
(* Cursor position inside a wrapped line                                   *)
(***************************************************************************)
\* The for loop of char_idx_to_visual_pos_in_line, from character i on.
RECURSIVE VisualPosLoop(_, _, _, _, _, _)
VisualPosLoop(line, i, char_offset, content_width, visual_x, visual_y) ==
    IF i >= Len(line) \/ i >= char_offset THEN <<visual_x, visual_y>>
    ELSE LET w == CharWidth(line[i + 1])
         IN  IF visual_x + w > content_width
             THEN VisualPosLoop(line, i + 1, char_offset, content_width, w, visual_y + 1)
             ELSE VisualPosLoop(line, i + 1, char_offset, content_width, visual_x + w, visual_y)

\* Editor::char_idx_to_visual_pos_in_line: (visual_x, visual_y)
CharIdxToVisualPosInLine(e, line_idx, char_offset) ==
    VisualPosLoop(Line(e.text, line_idx), 0, char_offset, ContentWidth(e), 0, 0)

\* The for loop of visual_pos_to_char_idx_in_line, from character i on.
RECURSIVE CharIdxLoop(_, _, _, _, _, _, _, _)
CharIdxLoop(line, i, target_vx, target_vy, content_width, current_vx, current_vy, last_char_idx) ==
    IF i >= Len(line) THEN LenCharsWithoutEnding(line)
    ELSE IF current_vy > target_vy THEN last_char_idx
    ELSE IF current_vy = target_vy /\ current_vx >= target_vx THEN i
    ELSE LET w == CharWidth(line[i + 1])
         IN  IF current_vx + w > content_width
             THEN CharIdxLoop(line, i + 1, target_vx, target_vy, content_width, w, current_vy + 1, i)
             ELSE CharIdxLoop(line, i + 1, target_vx, target_vy, content_width, current_vx + w, current_vy, i)

\* Editor::visual_pos_to_char_idx_in_line
VisualPosToCharIdxInLine(e, line_idx, target_vx, target_vy) ==
    CharIdxLoop(Line(e.text, line_idx), 0, target_vx, target_vy, ContentWidth(e), 0, 0, 0)

(***************************************************************************)
(* Selection and clipboard                                                 *)
(***************************************************************************)
\* Editor::get_selection_range: <<start, end>>, or <<>> without an anchor.
GetSelectionRange(e) ==
    IF e.selection_anchor = None THEN <<>>
    ELSE IF e.cursor < e.selection_anchor THEN <<e.cursor, e.selection_anchor>>
    ELSE <<e.selection_anchor, e.cursor>>

\* handle_selection if every extending call moved the anchor to the cursor.
HandleSelection_AnchorFollows(e, in_selection) ==
    IF in_selection THEN [e EXCEPT !.selection_anchor = e.cursor]
    ELSE [e EXCEPT !.selection_anchor = None]

\* handle_selection if the clearing call marked the lines and kept the
\* anchor.
HandleSelection_KeepsAnchor(e, in_selection) ==
    IF in_selection
    THEN IF e.selection_anchor = None THEN [e EXCEPT !.selection_anchor = e.cursor] ELSE e
    ELSE IF e.selection_anchor = None THEN e
    ELSE [e EXCEPT !.dirty_lines = e.dirty_lines
                       \cup (CharToLine(e.text, Min(e.selection_anchor, e.cursor))
                               .. CharToLine(e.text, Max(e.selection_anchor, e.cursor)))]

\* Editor::handle_selection
HandleSelection(e, in_selection) ==
    IF in_selection
    THEN IF e.selection_anchor = None THEN [e EXCEPT !.selection_anchor = e.cursor] ELSE e
    ELSE LET sel == GetSelectionRange(e)
             marked == IF sel = <<>> THEN {}
                       ELSE CharToLine(e.text, sel[1]) .. CharToLine(e.text, sel[2])
         IN  [e EXCEPT !.dirty_lines = e.dirty_lines \cup marked,
                       !.selection_anchor = None]

\* delete_selection if it left the last selected character in the text.
DeleteSelection_LeavesLast(e) ==
    LET sel == GetSelectionRange(e)
    IN  IF sel = <<>> THEN [e |-> e, some |-> FALSE, start_line |-> 0, old_line_count |-> 0]
        ELSE [e |-> [e EXCEPT !.text = Remove(e.text, sel[1], Max(sel[1], sel[2] - 1)),
                              !.cursor = sel[1],
                              !.selection_anchor = None],
              some |-> TRUE,
              start_line |-> CharToLine(e.text, sel[1]),
              old_line_count |-> CharToLine(e.text, sel[2]) - CharToLine(e.text, sel[1]) + 1]

\* Editor::delete_selection: the editor after it and the Option it returns.
DeleteSelection(e) ==
    LET sel == GetSelectionRange(e)
    IN  IF sel = <<>> THEN [e |-> e, some |-> FALSE, start_line |-> 0, old_line_count |-> 0]
        ELSE LET start_line == CharToLine(e.text, sel[1])
                 end_line == CharToLine(e.text, sel[2])
             IN  [e |-> [e EXCEPT !.text = Remove(e.text, sel[1], sel[2]),
                                  !.cursor = sel[1],
                                  !.selection_anchor = None],
                  some |-> TRUE,
                  start_line |-> start_line,
                  old_line_count |-> end_line - start_line + 1]

\* str::lines().count(): the pieces between line feeds, a final empty piece
\* not counted.
StrLinesCount(str) ==
    IF str = <<>> THEN 0
    ELSE Cardinality({i \in 1 .. Len(str) : str[i] = LF})
           + (IF str[Len(str)] = LF THEN 0 ELSE 1)

\* new_line_count of paste_from_clipboard
PasteNewLineCount(str) ==
    LET new_lines_in_paste == StrLinesCount(str)
    IN  IF new_lines_in_paste > 0 /\ ~(str # <<>> /\ str[Len(str)] = LF) THEN new_lines_in_paste
        ELSE IF new_lines_in_paste > 0 THEN new_lines_in_paste
        ELSE 1

\* The clipboard answers of one command: clip.ok is whether the clipboard
\* call succeeds, clip.text what get_text returns.
ClipOk(str) == [ok |-> TRUE, text |-> str]
ClipErr == [ok |-> FALSE, text |-> <<>>]

\* Editor::copy_selection_to_clipboard: TRUE iff it returns Err.
CopySelectionFails(e, clip) == GetSelectionRange(e) # <<>> /\ ~clip.ok

\* Editor::paste_from_clipboard: the editor after it, whether it returned
\* Err, and the (start_line, new_line_count) it returned otherwise.
PasteFromClipboard(e, clip) ==
    LET e1 == DeleteSelection(e).e
    IN  IF ~clip.ok THEN [e |-> e1, err |-> TRUE, start_line |-> 0, new_line_count |-> 0]
        ELSE [e |-> [e1 EXCEPT !.text = Insert(e1.text, e1.cursor, clip.text),
                               !.cursor = e1.cursor + Len(clip.text)],
              err |-> FALSE,
              start_line |-> CharToLine(e1.text, e1.cursor),
              new_line_count |-> PasteNewLineCount(clip.text)]

(***************************************************************************)
(* Character classes and word scans                                        *)
(***************************************************************************)
\* classify_char
ClassifyChar(c) ==
    IF c \in {"a", "b", "f", "o", "r", CJK, "_"} THEN "Word"
    ELSE IF c = LF \/ c = " "
         THEN (IF c = LF THEN "Newline" ELSE "Whitespace")
         ELSE "Symbol"

\* consume_while_kind on the characters the iterator still has: offset,
\* next_kind ("NoKind" for Option::None) and what the iterator has left.
RECURSIVE ConsumeWhileKind(_, _)
ConsumeWhileKind(stream, kind) ==
    IF stream = <<>> THEN [offset |-> 0, next_kind |-> "NoKind", rest |-> <<>>]
    ELSE IF ClassifyChar(Head(stream)) # kind
         THEN [offset |-> 0, next_kind |-> ClassifyChar(Head(stream)), rest |-> Tail(stream)]
         ELSE LET r == ConsumeWhileKind(Tail(stream), kind)
              IN  [r EXCEPT !.offset = r.offset + 1]

\* text.chars_at(cursor) and text.chars_at(cursor).reversed(), as the
\* characters next() will yield.
CharsAt(t, idx) == SubSeq(t, idx + 1, Len(t))
CharsAtReversed(t, idx) == [k \in 1 .. idx |-> t[idx + 1 - k]]

\* total_offset if line breaks formed runs like the other classes.
CursorWordOffset_NewlineRuns(stream) ==
    LET kind == ClassifyChar(Head(stream))
        c1 == ConsumeWhileKind(Tail(stream), kind)
        white == kind = "Whitespace"
        offset1 == IF white
                   THEN 1 + c1.offset + (IF c1.next_kind # "NoKind" THEN 1 ELSE 0)
                   ELSE 1
        kind2 == IF white /\ c1.next_kind # "NoKind" THEN c1.next_kind ELSE kind
        rest2 == IF white THEN c1.rest ELSE Tail(stream)
    IN  offset1 + ConsumeWhileKind(rest2, kind2).offset

\* total_offset of CursorWordLeft / CursorWordRight
CursorWordOffset(stream) ==
    LET kind == ClassifyChar(Head(stream))
        c1 == ConsumeWhileKind(Tail(stream), kind)
        white == kind = "Whitespace"
        offset1 == IF white
                   THEN 1 + c1.offset + (IF c1.next_kind # "NoKind" THEN 1 ELSE 0)
                   ELSE 1
        kind2 == IF white
                 THEN (IF c1.next_kind # "NoKind" THEN c1.next_kind ELSE "Newline")
                 ELSE kind
        rest2 == IF white THEN c1.rest ELSE Tail(stream)
    IN  IF kind2 # "Newline" THEN offset1 + ConsumeWhileKind(rest2, kind2).offset
        ELSE offset1

\* total_offset of DeleteWordLeft / DeleteWordRight
DeleteWordOffset(stream) ==
    LET kind == ClassifyChar(Head(stream))
    IN  IF kind # "Newline" THEN 1 + ConsumeWhileKind(Tail(stream), kind).offset ELSE 1

(***************************************************************************)
(* Vertical moves                                                          *)
(***************************************************************************)
\* Editor::curor_move_up
CurorMoveUp(e) ==
    LET y == CharToLine(e.text, e.cursor)
        start_idx == LineToChar(e.text, y)
        x_offset == e.cursor - start_idx
        pos == CharIdxToVisualPosInLine(e, y, x_offset)
        target_vx == IF e.tmp_x = None THEN pos[1] ELSE e.tmp_x
        e1 == [e EXCEPT !.tmp_x = target_vx]
    IN  IF pos[2] > 0
        THEN [e1 EXCEPT !.cursor =
                 start_idx + VisualPosToCharIdxInLine(e, y, target_vx, pos[2] - 1)]
        ELSE IF y > 0
        THEN LET prev_line_height == GetVisualHeightForLine(e, y - 1)
                 target_vy == IF prev_line_height > 0 THEN prev_line_height - 1 ELSE 0
             IN  [e1 EXCEPT !.cursor =
                     LineToChar(e.text, y - 1)
                       + VisualPosToCharIdxInLine(e, y - 1, target_vx, target_vy)]
        ELSE e1

\* Editor::cursor_move_down (a height of 0 makes `height as usize - 1`
\* leave the usize range)
CursorMoveDown(e) ==
    LET y == CharToLine(e.text, e.cursor)
        start_idx == LineToChar(e.text, y)
        x_offset == e.cursor - start_idx
        pos == CharIdxToVisualPosInLine(e, y, x_offset)
        current_line_height == GetVisualHeightForLine(e, y)
        target_vx == IF e.tmp_x = None THEN pos[1] ELSE e.tmp_x
        e1 == [e EXCEPT !.tmp_x = target_vx]
    IN  IF current_line_height < 1 THEN Panic(e1)
        ELSE IF pos[2] < current_line_height - 1
        THEN [e1 EXCEPT !.cursor =
                 start_idx + VisualPosToCharIdxInLine(e, y, target_vx, pos[2] + 1)]
        ELSE IF y < SatSub(LenLines(e.text), 1)
        THEN [e1 EXCEPT !.cursor =
                 LineToChar(e.text, y + 1)
                   + VisualPosToCharIdxInLine(e, y + 1, target_vx, 0)]
        ELSE e1

(***************************************************************************)
(* Commands and Editor::execute_command                                    *)
(***************************************************************************)
Cmd(name) == [name |-> name, ch |-> ""]
InputChar(ch) == [name |-> "InputChar", ch |-> ch]

TextChanged(start, old_count, new_count) ==
    [kind |-> "TextChanged", start |-> start, old |-> old_count, new |-> new_count]
CursorDirty == [kind |-> "CursorDirty"]
SelectionFixed == [kind |-> "SelectionFixed"]
EffectNone == [kind |-> "None"]

\* What execute_command returns: Ok(effect) or Err, and the editor after.
Done(e, effect) == [e |-> e, err |-> FALSE, effect |-> effect]
Failed(e) == [e |-> e, err |-> TRUE, effect |-> EffectNone]

\* The inserting arms if they reported one old line whatever the selection
\* spanned.
InsertArm_OneOldLine(e, str, new_count) ==
    LET d == DeleteSelection([e EXCEPT !.tmp_x = None])
    IN  Done([d.e EXCEPT !.text = Insert(d.e.text, d.e.cursor, str),
                         !.cursor = d.e.cursor + 1],
             TextChanged(CharToLine(d.e.text, d.e.cursor), 1, new_count))

\* The arms that insert text at the cursor after delete_selection.
InsertArm(e, str, new_count) ==
    LET d == DeleteSelection([e EXCEPT !.tmp_x = None])
        e1 == d.e
        inserted == [e1 EXCEPT !.text = Insert(e1.text, e1.cursor, str),
                               !.cursor = e1.cursor + 1]
    IN  IF d.some
        THEN Done(inserted, TextChanged(d.start_line, d.old_line_count, new_count))
        ELSE Done(inserted, TextChanged(CharToLine(e1.text, e1.cursor), 1, new_count))

\* DeleteLeft / DeleteRight if they reported one old line also for a
\* removed line break.
DeleteCharAt_OneOldLine(e, from) ==
    Done([e EXCEPT !.text = Remove(e.text, from, from + 1), !.cursor = from],
         TextChanged(CharToLine(e.text, from), 1, 1))

\* DeleteLeft / DeleteRight without a selection: removes [from, from + 1).
DeleteCharAt(e, from) ==
    LET start_line == CharToLine(e.text, from)
        old_total_lines == LenLines(e.text)
        t1 == Remove(e.text, from, from + 1)
    IN  Done([e EXCEPT !.text = t1, !.cursor = from],
             TextChanged(start_line, old_total_lines - LenLines(t1) + 1, 1))

\* DeleteWordRight / DeleteWordLeft without a selection: removes
\* [start_delete, end_delete), the cursor going to start_delete.
DeleteWordSpan(e, start_delete, end_delete) ==
    LET start_line == CharToLine(e.text, start_delete)
        end_line_before_delete == CharToLine(e.text, Min(end_delete, LenChars(e.text)))
    IN  Done([e EXCEPT !.text = Remove(e.text, start_delete, end_delete),
                       !.cursor = start_delete],
             TextChanged(start_line, end_line_before_delete - start_line + 1, 1))

\* The arms DeleteLeft, DeleteRight, DeleteWordLeft, DeleteWordRight.
DeleteArm(e, name) ==
    LET e0 == [e EXCEPT !.tmp_x = None]
        d == DeleteSelection(e0)
    IN  IF d.some THEN Done(d.e, TextChanged(d.start_line, d.old_line_count, 1))
        ELSE CASE name = "DeleteLeft" ->
                    IF e0.cursor > 0 THEN DeleteCharAt(e0, e0.cursor - 1)
                    ELSE Done(e0, CursorDirty)
               [] name = "DeleteRight" ->
                    IF e0.cursor < LenChars(e0.text) THEN DeleteCharAt(e0, e0.cursor)
                    ELSE Done(e0, CursorDirty)
               [] name = "DeleteWordRight" ->
                    IF e0.cursor < LenChars(e0.text)
                    THEN DeleteWordSpan(e0, e0.cursor,
                             e0.cursor + DeleteWordOffset(CharsAt(e0.text, e0.cursor)))
                    ELSE Done(e0, CursorDirty)
               [] name = "DeleteWordLeft" ->
                    IF e0.cursor > 0
                    THEN DeleteWordSpan(e0,
                             e0.cursor - DeleteWordOffset(CharsAtReversed(e0.text, e0.cursor)),
                             e0.cursor)
                    ELSE Done(e0, CursorDirty)

\* SelectLine
SelectLineArm(e) ==
    LET cursor_line_idx == CharToLine(e.text, e.cursor)
        has_next == cursor_line_idx + 1 < LenLines(e.text)
        next_line_start_char_idx ==
            IF has_next THEN LineToChar(e.text, cursor_line_idx + 1) ELSE LenChars(e.text)
    IN  [e EXCEPT !.tmp_x = None,
                  !.selection_anchor = LineToChar(e.text, cursor_line_idx),
                  !.cursor = next_line_start_char_idx,
                  !.dirty_lines = e.dirty_lines \cup {cursor_line_idx}
                      \cup (IF has_next THEN {cursor_line_idx + 1} ELSE {})]

\* TextPaste
TextPasteArm(e, clip) ==
    LET p == PasteFromClipboard(e, clip)
    IN  IF p.err THEN Failed(p.e)
        ELSE Done(p.e, TextChanged(p.start_line, 1, p.new_line_count))

\* Editor::execute_command
ExecuteCommand(e, command, clip) ==
    LET name == command.name
    IN  CASE name = "InputChar" -> InsertArm(e, <<command.ch>>, 1)
          [] name = "InputEnter" -> InsertArm(e, <<LF>>, 2)
          [] name \in {"DeleteLeft", "DeleteRight", "DeleteWordLeft", "DeleteWordRight"} ->
               DeleteArm(e, name)
          [] name = "CursorUp" -> Done(CurorMoveUp(e), CursorDirty)
          [] name = "CursorDown" -> Done(CursorMoveDown(e), CursorDirty)
          [] name = "CursorLeft" ->
               Done([e EXCEPT !.tmp_x = None,
                              !.cursor = IF e.cursor > 0 THEN e.cursor - 1 ELSE e.cursor],
                    CursorDirty)
          [] name = "CursorRight" ->
               Done([e EXCEPT !.tmp_x = None,
                              !.cursor = IF e.cursor < LenChars(e.text)
                                         THEN e.cursor + 1 ELSE e.cursor],
                    CursorDirty)
          [] name = "CursorWordLeft" ->
               Done([e EXCEPT !.tmp_x = None,
                              !.cursor = IF e.cursor > 0
                                         THEN e.cursor - CursorWordOffset(
                                                  CharsAtReversed(e.text, e.cursor))
                                         ELSE e.cursor],
                    CursorDirty)
          [] name = "CursorWordRight" ->
               Done([e EXCEPT !.tmp_x = None,
                              !.cursor = IF e.cursor < LenChars(e.text)
                                         THEN e.cursor + CursorWordOffset(
                                                  CharsAt(e.text, e.cursor))
                                         ELSE e.cursor],
                    CursorDirty)
          [] name = "CursorHome" ->
               Done([e EXCEPT !.tmp_x = None,
                              !.cursor = LineToChar(e.text, CharToLine(e.text, e.cursor))],
                    CursorDirty)
          [] name = "CursorEnd" ->
               LET line_idx == CharToLine(e.text, e.cursor)
               IN  Done([e EXCEPT !.tmp_x = None,
                                  !.cursor = LineToChar(e.text, line_idx)
                                      + LenCharsWithoutEnding(Line(e.text, line_idx))],
                        CursorDirty)
          [] name = "CursorPageUp" -> Done([e EXCEPT !.cursor = 0], CursorDirty)
          [] name = "CursorPageDown" ->
               Done([e EXCEPT !.cursor = LenChars(e.text)], CursorDirty)
          [] name = "SelectAll" ->
               Done([e EXCEPT !.tmp_x = None,
                              !.selection_anchor = 0,
                              !.cursor = LenChars(e.text),
                              !.full_redraw_request = TRUE],
                    SelectionFixed)
          [] name = "SelectLine" -> Done(SelectLineArm(e), SelectionFixed)
          [] name = "TextCopy" ->
               IF CopySelectionFails(e, clip) THEN Failed(e) ELSE Done(e, EffectNone)
          [] name = "TextCopyAndClearSelection" ->
               IF CopySelectionFails(e, clip) THEN Failed(e)
               ELSE Done(HandleSelection(e, FALSE), CursorDirty)
          [] name = "TextPaste" -> TextPasteArm(e, clip)
          [] name = "TextCut" ->
               IF CopySelectionFails(e, clip) THEN Failed(e)
               ELSE LET d == DeleteSelection(e)
                    IN  IF d.some
                        THEN Done(d.e, TextChanged(d.start_line, d.old_line_count, 1))
                        ELSE Done(e, EffectNone)
          [] name = "Exit" -> Done([e EXCEPT !.should_quit = TRUE], EffectNone)

(***************************************************************************)
(* Events and the keymap (command.rs)                                      *)
(***************************************************************************)
\* crossterm events, with the fields the editor reads.
KeyEvent(kind, code, ch, mods) ==
    [type |-> "Key", kind |-> kind, code |-> code, ch |-> ch, mods |-> mods,
     column |-> 0, row |-> 0]
Press(code, mods) == KeyEvent("Press", code, "", mods)
PressChar(ch, mods) == KeyEvent("Press", "Char", ch, mods)
MouseEvent(kind, column, row) ==
    [type |-> "Mouse", kind |-> kind, code |-> "", ch |-> "", mods |-> {},
     column |-> column, row |-> row]
ResizeEvent(cols, rows) ==
    [type |-> "Resize", kind |-> "", code |-> "", ch |-> "", mods |-> {},
     column |-> cols, row |-> rows]
FocusGained ==
    [type |-> "FocusGained", kind |-> "", code |-> "", ch |-> "", mods |-> {},
     column |-> 0, row |-> 0]

NoCommand == Cmd("NoCommand")

\* default_keymap().get(&input)
DefaultKeymap(code, ch, mods) ==
    LET plain == mods = {}
        shift == mods = {"SHIFT"}
        ctrl == mods = {"CONTROL"}
        ctrl_shift == mods = {"CONTROL", "SHIFT"}
        alt == mods = {"ALT"}
    IN  CASE code = "Enter" /\ (plain \/ shift) -> Cmd("InputEnter")
          [] code = "Backspace" /\ (plain \/ shift) -> Cmd("DeleteLeft")
          [] code = "Delete" /\ (plain \/ shift) -> Cmd("DeleteRight")
          [] code = "Backspace" /\ (ctrl \/ ctrl_shift) -> Cmd("DeleteWordLeft")
          [] code = "Delete" /\ (ctrl \/ ctrl_shift) -> Cmd("DeleteWordRight")
          [] code = "Char" /\ ch = "w" /\ ctrl -> Cmd("DeleteWordLeft")
          [] code = "Char" /\ ch = "d" /\ alt -> Cmd("DeleteWordRight")
          [] code = "Up" /\ (plain \/ shift) -> Cmd("CursorUp")
          [] code = "Down" /\ (plain \/ shift) -> Cmd("CursorDown")
          [] code = "Left" /\ (plain \/ shift) -> Cmd("CursorLeft")
          [] code = "Right" /\ (plain \/ shift) -> Cmd("CursorRight")
          [] code = "Left" /\ (ctrl \/ ctrl_shift) -> Cmd("CursorWordLeft")
          [] code = "Right" /\ (ctrl \/ ctrl_shift) -> Cmd("CursorWordRight")
          [] code = "Home" /\ plain -> Cmd("CursorHome")
          [] code = "End" /\ plain -> Cmd("CursorEnd")
          [] code = "PageUp" /\ plain -> Cmd("CursorPageUp")
          [] code = "PageDown" /\ plain -> Cmd("CursorPageDown")
          [] code = "Char" /\ ch = "a" /\ ctrl -> Cmd("SelectAll")
          [] code = "Char" /\ ch = "l" /\ ctrl -> Cmd("SelectLine")
          [] code = "Char" /\ ch = "c" /\ ctrl -> Cmd("TextCopy")
          [] code = "Char" /\ ch = "x" /\ ctrl -> Cmd("TextCut")
          [] code = "Char" /\ ch = "v" /\ ctrl -> Cmd("TextPaste")
          [] code = "Esc" /\ plain -> Cmd("Exit")
          [] OTHER -> NoCommand

(***************************************************************************)
(* Editor::handle_key_event                                                *)
(***************************************************************************)
\* run() returned Err: the `?` chain from the clipboard call.
ReturnErr(e) == [e EXCEPT !.halt = "error"]

\* Step 1 if it marked down to the last line whatever the delta.
TextChangedDirty_AlwaysToEnd(e, start, new_count, delta) ==
    [e EXCEPT !.dirty_lines = e.dirty_lines \cup (start .. LenLines(e.text) - 1)]

\* Step 1: the lines a text change makes dirty.
TextChangedDirty(e, start, new_count, delta) ==
    [e EXCEPT !.dirty_lines =
        e.dirty_lines \cup (IF delta # 0
                            THEN start .. LenLines(e.text) - 1
                            ELSE start .. start + new_count - 1)]

\* Step 2 if the line the cursor came from were not marked.
CursorDirtyStep_NoLineBefore(e, effect, shift, cursor_before, cursor_line_before) ==
    LET e1 == [e EXCEPT !.is_dirty = TRUE,
                        !.dirty_lines = e.dirty_lines \cup {CharToLine(e.text, e.cursor)}]
        back == [e1 EXCEPT !.cursor = cursor_before]
        handled == IF effect.kind = "SelectionFixed" THEN back
                   ELSE IF effect.kind = "TextChanged" THEN HandleSelection(back, FALSE)
                   ELSE HandleSelection(back, shift)
    IN  [handled EXCEPT !.cursor = e1.cursor]

\* Step 2 if SelectionFixed went through handle_selection like CursorDirty.
CursorDirtyStep_TogglesFixed(e, effect, shift, cursor_before, cursor_line_before) ==
    LET e1 == [e EXCEPT !.is_dirty = TRUE,
                        !.dirty_lines = e.dirty_lines
                            \cup {cursor_line_before, CharToLine(e.text, e.cursor)}]
        back == [e1 EXCEPT !.cursor = cursor_before]
        handled == IF effect.kind = "TextChanged" THEN HandleSelection(back, FALSE)
                   ELSE HandleSelection(back, shift)
    IN  [handled EXCEPT !.cursor = e1.cursor]

\* Step 2: the cursor lines and the selection, with the cursor put back to
\* where it was for the call of handle_selection.
\* The step if a text change went through handle_selection with the Shift
\* state of the key, like a cursor movement.
CursorDirtyStep_SelectsAfterEdit(e, effect, shift, cursor_before, cursor_line_before) ==
    LET e1 == [e EXCEPT !.is_dirty = TRUE,
                        !.dirty_lines = e.dirty_lines
                            \cup {cursor_line_before, CharToLine(e.text, e.cursor)}]
        cursor_now == e1.cursor
        back == [e1 EXCEPT !.cursor = cursor_before]
        handled == IF effect.kind = "SelectionFixed" THEN back
                   ELSE HandleSelection(back, shift)
    IN  [handled EXCEPT !.cursor = cursor_now]

CursorDirtyStep(e, effect, shift, cursor_before, cursor_line_before) ==
    LET e1 == [e EXCEPT !.is_dirty = TRUE,
                        !.dirty_lines = e.dirty_lines
                            \cup {cursor_line_before, CharToLine(e.text, e.cursor)}]
        cursor_now == e1.cursor
        back == [e1 EXCEPT !.cursor = cursor_before]
        handled == IF effect.kind = "SelectionFixed" THEN back
                   ELSE IF effect.kind = "TextChanged" THEN HandleSelection(back, FALSE)
                   ELSE HandleSelection(back, shift)
    IN  [handled EXCEPT !.cursor = cursor_now]

\* A binding merge_keymap inserts: the InputEvent and its Command.
Binding(code, ch, mods, name) ==
    [code |-> code, ch |-> ch, mods |-> mods, cmd |-> Cmd(name)]

\* self.keymap.get(&input): the field keymap holds the bindings inserted
\* over default_keymap() (none in the editor Editor::new builds); an
\* inserted binding replaces the default one of the same InputEvent.
KeymapGet(keymap, code, ch, mods) ==
    LET own == {b \in keymap : b.code = code /\ b.ch = ch /\ b.mods = mods}
    IN  IF own # {} THEN (CHOOSE b \in own : TRUE).cmd
        ELSE DefaultKeymap(code, ch, mods)

\* The same with the lookup made before the test for a typed character.
KeyCommand_KeymapFirst(keymap, ev) ==
    IF KeymapGet(keymap, ev.code, ev.ch, ev.mods) # NoCommand
    THEN KeymapGet(keymap, ev.code, ev.ch, ev.mods)
    ELSE IF ev.code = "Char" /\ ev.mods \in {{}, {"SHIFT"}} THEN InputChar(ev.ch)
    ELSE NoCommand

\* The command a key event stands for: a character typed without a
\* modifier or with SHIFT only is InputChar, anything else is looked up.
KeyCommand(keymap, ev) ==
    IF ev.code = "Char" /\ ev.mods \in {{}, {"SHIFT"}} THEN InputChar(ev.ch)
    ELSE KeymapGet(keymap, ev.code, ev.ch, ev.mods)

\* The `let effect = ...` of handle_key_event.
RunKeyCommand(e, ev, clip) ==
    IF KeyCommand(e.keymap, ev) # NoCommand
    THEN ExecuteCommand(e, KeyCommand(e.keymap, ev), clip)
    ELSE Done(e, EffectNone)

\* handle_key_event from update_height_cache's return on; u is what
\* update_height_cache gave.
AfterUpdate(u, effect, shift, cursor_before, cursor_line_before) ==
    IF u.e.halt # "none" THEN u.e
    ELSE CursorDirtyStep(TextChangedDirty(u.e, effect.start, effect.new, u.delta),
                         effect, shift, cursor_before, cursor_line_before)

\* handle_key_event from execute_command's return on; r is what
\* execute_command gave.
AfterCommand(r, shift, cursor_before, cursor_line_before) ==
    IF r.err THEN ReturnErr(r.e)
    ELSE IF r.e.halt # "none" THEN r.e
    ELSE IF r.effect.kind = "TextChanged"
    THEN AfterUpdate(UpdateHeightCache(r.e, r.effect.start, r.effect.old, r.effect.new),
                     r.effect, shift, cursor_before, cursor_line_before)
    ELSE IF r.effect.kind # "None"
    THEN CursorDirtyStep(r.e, r.effect, shift, cursor_before, cursor_line_before)
    ELSE r.e

HandleKeyEvent(e, ev, clip) ==
    AfterCommand(RunKeyCommand(e, ev, clip), "SHIFT" \in ev.mods,
                 e.cursor, CharToLine(e.text, e.cursor))

(***************************************************************************)
(* Editor::screen_to_char_idx and Editor::handle_event                     *)
(***************************************************************************)
\* The for loop of screen_to_char_idx from char_offset on: the offset it
\* returns from inside the loop, or None when the loop ends.
RECURSIVE ScreenColumnLoop(_, _, _, _, _, _, _)
ScreenColumnLoop(line, char_offset, target_visual_x, target_vy, content_width, current_visual_x, current_visual_y) ==
    IF char_offset >= Len(line) THEN None
    ELSE LET ch == line[char_offset + 1]
             char_width == CharWidth(ch)
             wraps == current_visual_x + char_width > content_width
         IN  IF current_visual_y = target_vy
                /\ current_visual_x + (char_width \div 2) >= target_visual_x
             THEN char_offset
             ELSE IF ch = LF THEN None
             ELSE ScreenColumnLoop(line, char_offset + 1, target_visual_x, target_vy,
                      content_width,
                      IF wraps THEN char_width ELSE current_visual_x + char_width,
                      IF wraps THEN current_visual_y + 1 ELSE current_visual_y)

\* screen_to_char_idx if a click on the line numbers gave the offset one
\* past the end of the document.
ScreenToCharIdx_GutterPastEnd(e, screen_x, screen_y) ==
    IF screen_y >= ContentHeight(e) THEN None
    ELSE IF screen_x < LINE_NUMBER_WIDTH THEN LenChars(e.text) + 1
    ELSE LenChars(e.text)

\* Editor::screen_to_char_idx: the char index, or None.
ScreenToCharIdx(e, screen_x, screen_y) ==
    IF screen_y >= ContentHeight(e) THEN None
    ELSE
      LET screen_top_abs_y == LogicalToAbsoluteVisual(e, e.scroll_offset)
          target_logical_pos == AbsoluteVisualToLogical(e, screen_top_abs_y + screen_y)
          logical_line_idx == target_logical_pos.logical_line
      IN  IF logical_line_idx >= LenLines(e.text) THEN LenChars(e.text)
          ELSE
            LET line == Line(e.text, logical_line_idx)
                line_start_char_idx == LineToChar(e.text, logical_line_idx)
                found == ScreenColumnLoop(line, 0,
                             SatSub(screen_x, LINE_NUMBER_WIDTH),
                             target_logical_pos.visual_offset_in_line,
                             ContentWidth(e), 0, 0)
            IN  IF screen_x < LINE_NUMBER_WIDTH THEN line_start_char_idx
                ELSE IF found # None THEN line_start_char_idx + found
                ELSE line_start_char_idx + LenCharsWithoutEnding(line)

\* The Event::Mouse arm.
HandleMouse(e, ev) ==
    CASE ev.kind = "DownLeft" ->
           LET e1 == HandleSelection(e, FALSE)
               char_idx == ScreenToCharIdx(e1, ev.column, ev.row)
               e2 == IF char_idx # None
                     THEN [e1 EXCEPT !.cursor = char_idx, !.tmp_x = None]
                     ELSE e1
           IN  [e2 EXCEPT !.is_dirty = TRUE]
      [] ev.kind = "DragLeft" ->
           LET e1 == HandleSelection(e, TRUE)
               char_idx == ScreenToCharIdx(e1, ev.column, ev.row)
               old_line == CharToLine(e1.text, e1.cursor)
               new_line == CharToLine(e1.text, char_idx)
               e2 == IF char_idx # None
                     THEN [e1 EXCEPT !.dirty_lines = e1.dirty_lines
                                         \cup (Min(old_line, new_line) .. Max(old_line, new_line)),
                                     !.cursor = char_idx,
                                     !.tmp_x = None]
                     ELSE e1
           IN  [e2 EXCEPT !.is_dirty = TRUE]
      [] ev.kind = "UpLeft" ->
           [e EXCEPT !.selection_anchor =
                         IF e.selection_anchor = e.cursor THEN None ELSE e.selection_anchor,
                     !.is_dirty = TRUE]
      [] ev.kind = "ScrollUp" -> [CurorMoveUp(e) EXCEPT !.is_dirty = TRUE]
      [] ev.kind = "ScrollDown" ->
           LET e1 == CursorMoveDown(e)
           IN  IF e1.halt # "none" THEN e1 ELSE [e1 EXCEPT !.is_dirty = TRUE]
      [] OTHER -> e

\* The Event::Resize arm.
HandleResize(e, cols, rows) ==
    LET e1 == [e EXCEPT !.terminal_width = cols, !.terminal_height = rows]
        e2 == IF cols # e.terminal_width THEN RebuildHeightCache(e1) ELSE e1
    IN  [e2 EXCEPT !.full_redraw_request = TRUE]

\* Editor::handle_event
HandleEvent(e, ev, clip) ==
    CASE ev.type = "Key" ->
           IF ev.kind # "Release" THEN HandleKeyEvent(e, ev, clip) ELSE e
      [] ev.type = "Mouse" -> HandleMouse(e, ev)
      [] ev.type = "Resize" -> HandleResize(e, ev.column, ev.row)
      [] OTHER -> [e EXCEPT !.is_dirty = FALSE]

(***************************************************************************)
(* Editor::scroll_to_cursor and Editor::draw_updates                       *)
(***************************************************************************)
\* The absolute visual row scroll_to_cursor computes for the cursor.
CursorAbsY(e) ==
    LET cursor_logical_y == CharToLine(e.text, e.cursor)
        start_of_line_char_idx == LineToChar(e.text, cursor_logical_y)
        pos == CharIdxToVisualPosInLine(e, cursor_logical_y,
                                        e.cursor - start_of_line_char_idx)
    IN  LogicalToAbsoluteVisual(e, ScrollOffset(cursor_logical_y, pos[2]))

ScrollToCursor(e) ==
    LET content_height == ContentHeight(e)
        cursor_abs_y == CursorAbsY(e)
        screen_top_abs_y == LogicalToAbsoluteVisual(e, e.scroll_offset)
        screen_bottom_abs_y == screen_top_abs_y + content_height - 1
        middle_offset == content_height \div 2
        ideal_top_abs_y == SatSub(cursor_abs_y, middle_offset)
        total_doc_visual_height == GetTotalVisualHeightBetween(e, 0, LenLines(e.text))
        remaining_height == SatSub(total_doc_visual_height, ideal_top_abs_y)
        new_top_abs_y ==
            IF cursor_abs_y < screen_top_abs_y THEN cursor_abs_y
            ELSE IF cursor_abs_y > screen_bottom_abs_y
            THEN cursor_abs_y - content_height + 1
            ELSE IF remaining_height < content_height
            THEN SatSub(total_doc_visual_height, content_height)
            ELSE ideal_top_abs_y
        final_offset == AbsoluteVisualToLogical(e, new_top_abs_y)
    IN  IF content_height = 0 THEN e
        ELSE [e EXCEPT !.scroll_offset = final_offset,
                       !.full_redraw_request =
                           e.full_redraw_request \/ final_offset # e.scroll_offset]

\* The loop over the lines after the first one of a full redraw.
RECURSIVE FullRedrawLoop(_, _, _)
FullRedrawLoop(e, i, y) ==
    IF i >= LenLines(e.text) \/ y >= ContentHeight(e) THEN {}
    ELSE {i} \cup FullRedrawLoop(e, i + 1, y + GetVisualHeightForLine(e, i))

\* The dirty set a full redraw computes.
FullRedrawLines(e) ==
    LET first_line_idx == e.scroll_offset.logical_line
        inside == first_line_idx < LenLines(e.text)
        y == IF inside
             THEN SatSub(GetVisualHeightForLine(e, first_line_idx),
                         e.scroll_offset.visual_offset_in_line)
             ELSE 0
    IN  (IF inside THEN {first_line_idx} ELSE {})
          \cup FullRedrawLoop(e, first_line_idx + 1, y)

\* The lines draw_updates hands to draw_single_line.
DrawnLines(e) ==
    {line_idx \in (IF e.full_redraw_request THEN FullRedrawLines(e) ELSE e.dirty_lines) :
        line_idx < LenLines(e.text)}

\* Editor::draw_updates, as far as the Editor struct goes.
DrawUpdates(e) == [e EXCEPT !.dirty_lines = {}, !.full_redraw_request = FALSE]

\* The editor as run() holds it in the blocking event::read: after the
\* scroll_to_cursor of the loop head and, if is_dirty, its redraw.
AtBlockingRead(e) ==
    IF ScrollToCursor(e).is_dirty
    THEN [DrawUpdates(ScrollToCursor(e)) EXCEPT !.is_dirty = FALSE]
    ELSE ScrollToCursor(e)

(***************************************************************************)
(* Editor::run                                                             *)
(***************************************************************************)
MaxEvents == 3

\* The documents the editor is opened on, each with the terminal size
\* <<columns, rows>> it is opened in.
InitialSetups ==
    {<<<< >>, <<10, 3>>>>,
     <<<<"a", "a", "a", LF, " ", ".">>, <<10, 3>>>>,
     <<<<LF, LF, LF, LF>>, <<10, 4>>>>}

TypedKeys ==
    {PressChar("a", {}), PressChar(CJK, {}), Press("Enter", {})}
DeleteKeys ==
    {Press("Backspace", {}), Press("Delete", {}),
     Press("Backspace", {"CONTROL"}), Press("Delete", {"CONTROL"})}
MoveKeys ==
    {Press("Up", {}), Press("Down", {}), Press("Left", {}), Press("Right", {}),
     Press("Left", {"SHIFT"}), Press("Right", {"SHIFT"}), Press("Down", {"SHIFT"}),
     Press("Left", {"CONTROL"}), Press("Right", {"CONTROL"}),
     Press("Home", {}), Press("End", {}), Press("PageUp", {}), Press("PageDown", {})}
SelectKeys == {PressChar("a", {"CONTROL"}), PressChar("l", {"CONTROL"})}
ClipboardKeys ==
    {PressChar("c", {"CONTROL"}), PressChar("x", {"CONTROL"}), PressChar("v", {"CONTROL"})}
OtherKeys ==
    {Press("Esc", {}), Press("Tab", {}), KeyEvent("Release", "Char", "a", {})}
MouseEvents ==
    {MouseEvent("DownLeft", 3, 0), MouseEvent("DownLeft", 8, 1), MouseEvent("DownLeft", 9, 2),
     MouseEvent("DragLeft", 8, 0), MouseEvent("DragLeft", 9, 1),
     MouseEvent("UpLeft", 8, 0), MouseEvent("ScrollUp", 0, 0),
     MouseEvent("ScrollDown", 0, 0), MouseEvent("Moved", 8, 0)}
ResizeEvents == {ResizeEvent(10, 3), ResizeEvent(11, 3), ResizeEvent(8, 1)}

Events ==
    TypedKeys \cup DeleteKeys \cup MoveKeys \cup SelectKeys \cup ClipboardKeys
      \cup OtherKeys \cup MouseEvents \cup ResizeEvents \cup {FocusGained}

ClipboardTexts == {<<"a">>, <<"a", LF>>, <<LF, "a">>}

\* What the system clipboard can answer while the event is handled.
ClipAnswers(ev) ==
    IF ev \in ClipboardKeys
    THEN {ClipErr} \cup (IF ev.ch = "v" THEN {ClipOk(str) : str \in ClipboardTexts}
                         ELSE {ClipOk(<<>>)})
    ELSE {ClipOk(<<>>)}

DirtyLinesUnused ==
    /\ ranges = <<>>
    /\ passed = {}
    /\ normed = {}
    /\ scenario = "none"
    /\ todo = <<>>
    /\ lastCall = NoCall
    /\ lastOut = <<>>

InitEditor ==
    /\ DirtyLinesUnused
    /\ \E setup \in InitialSetups : ed = FromRope(setup[1], setup[2][1], setup[2][2])
    /\ pc = "start"
    /\ obs = [events |-> 0, drawn |-> {}]

\* run() up to its loop: rebuild_height_cache.
RunStart ==
    /\ pc = "start"
    /\ ed' = RebuildHeightCache(ed)
    /\ pc' = "top"
    /\ UNCHANGED <<obs, dlVars>>

\* The head of the loop: scroll_to_cursor, and the redraw if is_dirty.
LoopTop ==
    /\ pc = "top"
    /\ ~ed.should_quit
    /\ LET scrolled == ScrollToCursor(ed)
       IN  IF scrolled.is_dirty
           THEN /\ ed' = [DrawUpdates(scrolled) EXCEPT !.is_dirty = FALSE]
                /\ obs' = [obs EXCEPT !.drawn = DrawnLines(scrolled)]
           ELSE /\ ed' = scrolled
                /\ obs' = [obs EXCEPT !.drawn = {}]
    /\ pc' = "read"
    /\ UNCHANGED dlVars

\* The loop condition fails: run() returns Ok.
LoopExit ==
    /\ pc = "top"
    /\ ed.should_quit
    /\ pc' = "done"
    /\ UNCHANGED <<ed, obs, dlVars>>

\* The editor after handle_event, and where run() goes on: out of the
\* process after a panic or an Err, into (or on in) the drain loop, or back
\* to the head of the loop.
EventHandled(e1, draining) ==
    /\ ed' = e1
    /\ pc' = IF e1.halt # "none" THEN "done"
             ELSE IF draining \/ (e1.is_dirty /\ ~e1.should_quit) THEN "poll"
             ELSE "top"

\* handle_event(event::read()?) at the blocking read.
ReadEvent ==
    /\ pc = "read"
    /\ obs.events < MaxEvents
    /\ \E ev \in Events : \E clip \in ClipAnswers(ev) :
         EventHandled(HandleEvent(ed, ev, clip), FALSE)
    /\ obs' = [obs EXCEPT !.events = @ + 1]
    /\ UNCHANGED dlVars

\* One more event is ready in the drain loop.
PollEvent ==
    /\ pc = "poll"
    /\ obs.events < MaxEvents
    /\ \E ev \in Events : \E clip \in ClipAnswers(ev) :
         EventHandled(HandleEvent(ed, ev, clip), TRUE)
    /\ obs' = [obs EXCEPT !.events = @ + 1]
    /\ UNCHANGED dlVars

\* event::poll reports no event: back to the head of the loop.
PollEmpty ==
    /\ pc = "poll"
    /\ pc' = "top"
    /\ UNCHANGED <<ed, obs, dlVars>>

NextEditor == RunStart \/ LoopTop \/ LoopExit \/ ReadEvent \/ PollEvent \/ PollEmpty
SpecEditor == InitEditor /\ [][NextEditor]_vars

(***************************************************************************)
(* The height cache on its own: update_height_cache after an edit that     *)
(* replaces whole lines, rebuild_height_cache on a width change, and the   *)
(* two coordinate mappings, each called on a cache that is consistent      *)
(* with the document.                                                      *)
(***************************************************************************)
MaxDocLen == 3
RowsBeyond == 2

DocChars == {"a", CJK, LF}

RECURSIVE DocsOfLen(_)
DocsOfLen(n) ==
    IF n = 0 THEN {<<>>}
    ELSE {Append(d, c) : d \in DocsOfLen(n - 1), c \in DocChars}

Docs == UNION {DocsOfLen(n) : n \in 0 .. MaxDocLen}

\* Terminal widths that give the content widths 1_000_000_000, 1 and 2.
CacheCols == {8, 9, 10}
CacheRows == 3

\* The edit from t to t2 replaced exactly the lines start .. start + old - 1
\* of t by the lines start .. start + new - 1 of t2: every other line
\* (Rope::line, line break included) is the same before and after.
ExactReplace(t, t2, start, old, new) ==
    /\ start + old <= LenLines(t)
    /\ start + new <= LenLines(t2)
    /\ LenLines(t2) - new = LenLines(t) - old
    /\ \A i \in 0 .. start - 1 : Line(t2, i) = Line(t, i)
    /\ \A j \in 0 .. LenLines(t) - start - old - 1 :
           Line(t2, start + new + j) = Line(t, start + old + j)

InitCache ==
    /\ DirtyLinesUnused
    /\ \E rope \in Docs, cols \in CacheCols :
           ed = RebuildHeightCache(FromRope(rope, cols, CacheRows))
    /\ pc = "cache"
    /\ obs = [op |-> "none"]

\* The text is edited and update_height_cache is called with the span of
\* the edit.
UpdateCall ==
    /\ pc = "cache"
    /\ \E t2 \in Docs :
         \E start \in 0 .. LenLines(ed.text) :
           \E old \in 0 .. LenLines(ed.text) - start, new \in 0 .. LenLines(t2) :
             /\ ExactReplace(ed.text, t2, start, old, new)
             /\ LET u == UpdateHeightCache([ed EXCEPT !.text = t2], start, old, new)
                IN  /\ ed' = u.e
                    /\ obs' = [op |-> "update",
                               text_before |-> ed.text,
                               H_before |-> ed.cumulative_visual_heights,
                               start |-> start, old |-> old, new |-> new,
                               delta |-> u.delta]
    /\ pc' = "updated"
    /\ UNCHANGED dlVars

\* Event::Resize to another width: rebuild_height_cache.
ResizeCall ==
    /\ pc = "cache"
    /\ \E cols \in CacheCols :
         /\ cols # ed.terminal_width
         /\ ed' = HandleResize(ed, cols, CacheRows)
    /\ obs' = [op |-> "rebuild"]
    /\ UNCHANGED <<pc, dlVars>>

\* absolute_visual_to_logical(r) and logical_to_absolute_visual of what it
\* returned, for a row r up to RowsBeyond past the document.
MapRowCall ==
    /\ pc = "cache"
    /\ \E r \in 0 .. GetTotalVisualHeightBetween(ed, 0, LenLines(ed.text)) + RowsBeyond :
         LET out == AbsoluteVisualToLogical(ed, r)
         IN  obs' = [op |-> "map", r |-> r, out |-> out,
                     back |-> LogicalToAbsoluteVisual(ed, out)]
    /\ pc' = "mapped"
    /\ UNCHANGED <<ed, dlVars>>

\* Terminal heights that give the content heights 1 to 4.
ScrollRows == {2, 3, 4, 5}

\* scroll_to_cursor at the head of the run loop, with the cursor anywhere in
\* the document and the scroll offset an earlier call left behind, possibly
\* computed for a document that was longer then.
ScrollCall ==
    /\ pc = "cache"
    /\ \E cursor \in 0 .. LenChars(ed.text), rows \in ScrollRows :
         \E line \in 0 .. MaxDocLen + 1, off \in 0 .. RowsBeyond :
           LET before == [ed EXCEPT !.cursor = cursor,
                                    !.terminal_height = rows,
                                    !.scroll_offset = ScrollOffset(line, off)]
           IN  /\ ed' = ScrollToCursor(before)
               /\ obs' = [op |-> "scroll", before |-> before.scroll_offset]
    /\ pc' = "scrolled"
    /\ UNCHANGED dlVars

NextCache == UpdateCall \/ ResizeCall \/ MapRowCall \/ ScrollCall
SpecCache == InitCache /\ [][NextCache]_vars

(***************************************************************************)
(* One key event on its own: handle_event is called with a key event on an *)
(* editor that has drawn its document, the cursor anywhere in it, with or  *)
(* without a selection anchor, H consistent with the document.             *)
(***************************************************************************)
\* The documents of Docs with a space in the place of the wide character:
\* words, blanks and line breaks.
KeyDocs == {[i \in 1 .. Len(d) |-> IF d[i] = CJK THEN " " ELSE d[i]] : d \in Docs}

\* Terminal widths that give the content widths 2 and 3.
KeyCols == {10, 11}

\* Keys with SHIFT that the events of the run loop above leave out: mapped
\* ones, unmapped ones, and a typed character.
ShiftKeys ==
    {Press("Up", {"SHIFT"}), Press("Left", {"CONTROL", "SHIFT"}),
     Press("Right", {"CONTROL", "SHIFT"}), Press("Home", {"SHIFT"}),
     Press("PageDown", {"SHIFT"}), PressChar("a", {"SHIFT"}),
     Press("Enter", {"SHIFT"}), Press("Backspace", {"SHIFT"})}

KeyEvents ==
    TypedKeys \cup DeleteKeys \cup MoveKeys \cup SelectKeys \cup ClipboardKeys
      \cup OtherKeys \cup ShiftKeys

\* The CommandEffect handle_key_event gets from execute_command for the
\* event ("Err" when execute_command returns Err), None for an event that
\* handle_event does not pass on.
KeyEffect(e, ev, clip) ==
    IF ev.kind = "Release" THEN EffectNone
    ELSE IF RunKeyCommand(e, ev, clip).err THEN [kind |-> "Err"]
    ELSE RunKeyCommand(e, ev, clip).effect

\* What update_height_cache returns to handle_key_event for the event, 0
\* when it is not called.
KeyDelta(r) ==
    IF ~r.err /\ r.effect.kind = "TextChanged"
    THEN UpdateHeightCache(r.e, r.effect.start, r.effect.old, r.effect.new).delta
    ELSE 0

InitKeys ==
    /\ DirtyLinesUnused
    /\ \E rope \in KeyDocs, cols \in KeyCols :
         \E cursor \in 0 .. Len(rope), anchor \in {None} \cup (0 .. Len(rope)) :
           ed = AtBlockingRead([RebuildHeightCache(FromRope(rope, cols, CacheRows))
                                  EXCEPT !.cursor = cursor,
                                         !.selection_anchor = anchor])
    /\ pc = "key"
    /\ obs = [op |-> "none"]

\* handle_event(event::read()?) with a key event.
KeyCall ==
    /\ pc = "key"
    /\ \E ev \in KeyEvents : \E clip \in ClipAnswers(ev) :
         /\ ed' = HandleEvent(ed, ev, clip)
         /\ obs' = [op |-> "key", ev |-> ev, clip |-> clip, before |-> ed,
                    effect |-> KeyEffect(ed, ev, clip),
                    delta |-> IF ev.kind = "Release" THEN 0
                              ELSE KeyDelta(RunKeyCommand(ed, ev, clip))]
    /\ pc' = "keyed"
    /\ UNCHANGED dlVars

NextKeys == KeyCall
SpecKeys == InitKeys /\ [][NextKeys]_vars

(***************************************************************************)
(* Word navigation on its own: Ctrl+Right and Ctrl+Left on documents of    *)
(* words, symbols, blanks and line breaks, the cursor anywhere, and        *)
(* Ctrl+Left after Ctrl+Right.                                             *)
(***************************************************************************)
MaxWordLen == 4

WordDocChars == {"a", ".", " ", LF}

\* Every document of up to MaxWordLen characters, and the text "foo bar".
WordDocs ==
    UNION {[1 .. n -> WordDocChars] : n \in 0 .. MaxWordLen}
      \cup {<<"f", "o", "o", " ", "b", "a", "r">>}

InitWords ==
    /\ DirtyLinesUnused
    /\ \E rope \in WordDocs : \E cursor \in 0 .. Len(rope) :
         ed = AtBlockingRead([RebuildHeightCache(FromRope(rope, 10, CacheRows))
                                EXCEPT !.cursor = cursor])
    /\ pc = "word"
    /\ obs = [op |-> "none", origin |-> ed.cursor, mid |-> ed.cursor]

\* Ctrl+Right: CursorWordRight through handle_event.
WordRightCall ==
    /\ pc = "word"
    /\ ed' = HandleEvent(ed, Press("Right", {"CONTROL"}), ClipOk(<<>>))
    /\ obs' = [op |-> "right", origin |-> ed.cursor, mid |-> ed.cursor]
    /\ pc' = "right"
    /\ UNCHANGED dlVars

\* Ctrl+Left: CursorWordLeft through handle_event, as the first command or
\* after Ctrl+Right.
WordLeftCall ==
    /\ pc \in {"word", "right"}
    /\ ed' = HandleEvent(ed, Press("Left", {"CONTROL"}), ClipOk(<<>>))
    /\ obs' = [op |-> IF pc = "word" THEN "left" ELSE "right-left",
                origin |-> obs.origin, mid |-> ed.cursor]
    /\ pc' = "left"
    /\ UNCHANGED dlVars

NextWords == WordRightCall \/ WordLeftCall
SpecWords == InitWords /\ [][NextWords]_vars

(***************************************************************************)
(* Claims about the height cache and the coordinate mapping                *)
(***************************************************************************)
\* The editor is inside run() and has neither panicked nor returned Err.
Running == pc \in {"top", "read", "poll", "done"} /\ ed.halt = "none"

\* C7: from the freshly rebuilt cache on, after any sequence of key
\* commands handled by handle_key_event (typing, Enter, the four deletes,
\* cut, paste of any clipboard text, with or without a selection, mixed
\* with navigation), the incrementally maintained array H is the array
\* rebuild_height_cache would compute from the current document at the
\* current content width.
C7_CacheMatchesRebuild ==
    Running => ed.cumulative_visual_heights = RebuildH(ed.text, ContentWidth(ed))

\* The old span and the new span of an update, from the heights of the
\* lines themselves.
OldSpanHeight ==
    SumSeq([i \in 1 .. obs.old |->
               LineHeight(obs.text_before, obs.start + i - 1, ContentWidth(ed))])
NewSpanHeight ==
    SumSeq([i \in 1 .. obs.new |->
               LineHeight(ed.text, obs.start + i - 1, ContentWidth(ed))])

\* C8: if H is consistent with the document before the edit and the edit
\* replaced exactly old_line_count lines from start_line on by
\* new_line_count lines, then update_height_cache(start_line,
\* old_line_count, new_line_count) leaves H equal to what
\* rebuild_height_cache gives for the document after the edit, leaves the
\* entries H[0 ..= start_line] as they were, shifts every entry after the
\* spliced span by the same delta, and returns
\* delta = new_span_height - old_span_height.
C8_UpdateEqualsRebuild ==
    obs.op = "update" =>
        LET H == ed.cumulative_visual_heights
            H0 == obs.H_before
        IN  /\ ed.halt = "none"
            /\ H = RebuildH(ed.text, ContentWidth(ed))
            /\ \A i \in 0 .. obs.start : H[i + 1] = H0[i + 1]
            /\ Len(H) - obs.new = Len(H0) - obs.old
            /\ \A i \in obs.start + obs.new + 1 .. Len(H) - 1 :
                   H[i + 1] = H0[i - obs.new + obs.old + 1] + obs.delta
            /\ obs.delta = NewSpanHeight - OldSpanHeight

\* An update in the middle of the document that changes the height of the
\* span, so that the entries after it move.
C8_Witness ==
    /\ obs.op = "update"
    /\ obs.delta # 0
    /\ obs.start > 0
    /\ obs.old # obs.new
    /\ obs.start + obs.new < LenLines(ed.text)

\* C9: after rebuild_height_cache and after every update_height_cache, H
\* has length line_count + 1, H[0] = 0, and every difference
\* H[i + 1] - H[i] is the number of wrapped rows of line i and is at least
\* 1, also for an empty line, so H never decreases.
C9_CacheShape ==
    Running =>
        LET H == ed.cumulative_visual_heights
        IN  /\ Len(H) = LenLines(ed.text) + 1
            /\ H[1] = 0
            /\ \A i \in 0 .. LenLines(ed.text) - 1 :
                   /\ H[i + 2] - H[i + 1]
                        = Len(ChunkByWidthCjk(Line(ed.text, i), ContentWidth(ed)))
                   /\ H[i + 2] - H[i + 1] >= 1

\* C10: with a consistent H, absolute_visual_to_logical(r) returns
\* (line, off) with H[line] <= r < H[line + 1] and off = r - H[line] for
\* every row r below the total height, returns the last logical line for
\* every r at or beyond the total height, and logical_to_absolute_visual
\* of what it returned is r again, for every r.
C10_RowMapsToOwningLine ==
    obs.op = "map" =>
        LET H == ed.cumulative_visual_heights
            line == obs.out.logical_line
            off == obs.out.visual_offset_in_line
        IN  /\ obs.r < H[Len(H)] =>
                   /\ H[line + 1] <= obs.r
                   /\ obs.r < H[line + 2]
                   /\ off = obs.r - H[line + 1]
            /\ obs.r >= H[Len(H)] => line = LenLines(ed.text) - 1
            /\ obs.back = obs.r

\* A row inside a wrapped line that is not the first line of the document.
C10_Witness ==
    /\ obs.op = "map"
    /\ obs.r < ed.cumulative_visual_heights[Len(ed.cumulative_visual_heights)]
    /\ obs.out.logical_line > 0
    /\ obs.out.visual_offset_in_line > 0
    /\ obs.back = obs.r

(***************************************************************************)
(* Claims about scroll_to_cursor                                           *)
(***************************************************************************)
\* The absolute visual row of the scroll offset, the top of the viewport.
TopAbsY(e) == LogicalToAbsoluteVisual(e, e.scroll_offset)

TotalDocVisualHeight(e) == GetTotalVisualHeightBetween(e, 0, LenLines(e.text))

\* C11: after scroll_to_cursor returns, with a viewport of at least one row
\* and H consistent with the document, whatever the scroll offset was
\* before, the absolute visual row of the cursor lies in
\* [top, top + viewport_height), top being the absolute visual row of the
\* new scroll offset.
C11_CursorInViewport ==
    (obs.op = "scroll" /\ ContentHeight(ed) >= 1
       /\ ed.cumulative_visual_heights = RebuildH(ed.text, ContentWidth(ed)))
      => /\ TopAbsY(ed) <= CursorAbsY(ed)
         /\ CursorAbsY(ed) < TopAbsY(ed) + ContentHeight(ed)

\* C12: after scroll_to_cursor returns in any reachable state, also right
\* after an edit that shortened the document while the old scroll offset
\* was below the new cursor row, top is 0 if the total visual height of the
\* document is less than the height of the viewport.
C12_ShortDocumentTopZero ==
    (Running /\ pc = "read" /\ ContentHeight(ed) >= 1
       /\ TotalDocVisualHeight(ed) < ContentHeight(ed))
      => TopAbsY(ed) = 0

(***************************************************************************)
(* Claims about the cursor and the commands                                *)
(***************************************************************************)
\* C13: in every reachable state, after any sequence of commands and mouse
\* events, 0 <= cursor <= document.char_count().
C13_CursorInDocument ==
    pc \in {"start", "top", "read", "poll", "done"}
      => (0 <= ed.cursor /\ ed.cursor <= LenChars(ed.text))

\* The cursor stands at the end of a document that was edited, with a
\* selection open, after all the events of a run.
C13_Witness ==
    /\ Running
    /\ obs.events = MaxEvents
    /\ ed.cursor = LenChars(ed.text)
    /\ ed.cursor > 0
    /\ ed.selection_anchor # None
    /\ \A setup \in InitialSetups : setup[1] # ed.text

\* The key event of the state was handled by handle_key_event and
\* execute_command returned Ok.
KeyDone == obs.op = "key" /\ obs.ev.kind # "Release" /\ obs.effect.kind # "Err"

\* The name of the command the key event of the state was mapped to.
KeyName == KeyCommand(obs.before.keymap, obs.ev).name

EditCommands ==
    {"InputChar", "InputEnter", "DeleteLeft", "DeleteRight", "DeleteWordLeft",
     "DeleteWordRight", "TextCut", "TextPaste"}

\* The text the command of the state inserts: nothing for the deletes and
\* the cut.
TextOfCommand ==
    CASE KeyName = "InputChar" -> <<obs.ev.ch>>
      [] KeyName = "InputEnter" -> <<LF>>
      [] KeyName = "TextPaste" -> obs.clip.text
      [] OTHER -> << >>

\* The editor after the key event of the state holds the document of
\* before with the selection [a, b) replaced by the text of the command,
\* the cursor behind that text and no selection.
SelectionReplaced ==
    LET t == obs.before.text
        a == Min(obs.before.selection_anchor, obs.before.cursor)
        b == Max(obs.before.selection_anchor, obs.before.cursor)
    IN  /\ ed.text = SubSeq(t, 1, a) \o TextOfCommand \o SubSeq(t, b + 1, Len(t))
        /\ ed.cursor = a + Len(TextOfCommand)
        /\ ed.selection_anchor = None

\* C14 as stated: every typing or deleting command (InputChar, InputEnter,
\* DeleteLeft, DeleteRight, DeleteWordLeft, DeleteWordRight, TextCut,
\* TextPaste) executed with an active selection [a, b) removes exactly the
\* characters of [a, b) and puts the cursor at a; InputChar, InputEnter and
\* TextPaste then insert their text at a, the deletes and the cut remove
\* nothing beyond the selection; the selection is empty afterwards.  Every
\* execution counts, also the one whose clipboard call fails.
C14_Original ==
    (obs.op = "key" /\ obs.ev.kind # "Release" /\ KeyName \in EditCommands
       /\ obs.before.selection_anchor # None)
      => SelectionReplaced

\* C14, amended: every typing or deleting command (InputChar, InputEnter,
\* DeleteLeft, DeleteRight, DeleteWordLeft, DeleteWordRight, TextCut,
\* TextPaste) that is executed with an active selection [a, b) and returns
\* Ok removes exactly the characters of [a, b) and puts the cursor at a;
\* InputChar, InputEnter and TextPaste then insert their text at a, the
\* deletes and the cut remove nothing beyond the selection; the selection
\* is empty afterwards.  A TextCut whose clipboard call fails returns Err
\* and leaves document, cursor and selection as they were.
C14_SelectionReplaced ==
    /\ (KeyDone /\ KeyName \in EditCommands /\ obs.before.selection_anchor # None)
         => (SelectionReplaced /\ ed.halt = "none")
    /\ (obs.op = "key" /\ obs.ev.kind # "Release" /\ obs.effect.kind = "Err"
          /\ KeyName = "TextCut")
         => /\ ed.text = obs.before.text
            /\ ed.cursor = obs.before.cursor
            /\ ed.selection_anchor = obs.before.selection_anchor

\* A paste over a selection of two or more characters, the anchor after
\* the cursor.
C14_Witness ==
    /\ KeyDone
    /\ KeyName = "TextPaste"
    /\ obs.clip.text = <<"a", LF>>
    /\ obs.before.selection_anchor > obs.before.cursor + 1
    /\ ed.cursor = obs.before.cursor + 2

\* C15: when the whole document is selected (anchor 0, cursor at
\* char_count) and InputChar(c) is executed, the document becomes exactly
\* the one character c, the cursor is 1, and the returned effect is
\* TextChanged(0, L, 1), L being the number of logical lines the selection
\* spanned.
C15_TypeOverWholeDocument ==
    (KeyDone /\ KeyName = "InputChar"
       /\ obs.before.selection_anchor = 0
       /\ obs.before.cursor = Len(obs.before.text))
      => LET t == obs.before.text
             L == Cardinality({i \in 1 .. Len(t) : t[i] = LF}) + 1
         IN  /\ ed.text = <<obs.ev.ch>>
             /\ ed.cursor = 1
             /\ obs.effect = [kind |-> "TextChanged", start |-> 0, old |-> L, new |-> 1]

\* A wide character typed over a selected document of two or more lines.
C15_Witness ==
    /\ KeyDone
    /\ KeyName = "InputChar"
    /\ obs.ev.ch = CJK
    /\ obs.before.selection_anchor = 0
    /\ obs.before.cursor = Len(obs.before.text)
    /\ obs.effect.old >= 2
    /\ ed.text = <<CJK>>

InsertDeleteCommands ==
    {"InputChar", "InputEnter", "DeleteLeft", "DeleteRight", "DeleteWordLeft",
     "DeleteWordRight"}

\* The command of the state changed exactly one character: it inserted one
\* and removed none, or removed one.
OneCharacterChange ==
    IF KeyName \in {"InputChar", "InputEnter"}
    THEN Len(ed.text) = Len(obs.before.text) + 1
    ELSE Len(ed.text) = Len(obs.before.text) - 1

\* C16: every insert or delete command that changes the document
\* (InputChar, InputEnter, DeleteLeft, DeleteRight, DeleteWordLeft,
\* DeleteWordRight, with or without a selection) returns
\* TextChanged(start_line, old, new) such that all lines outside
\* [start_line, start_line + old) are untouched and new - old is the change
\* of the line count of the document: old = 1 and new = 1 for a change of
\* one character that is not a line break, new = old + 1 when a line break
\* is inserted, old = new + 1 when a line break is removed.
C16_EffectDescribesEdit ==
    (KeyDone /\ KeyName \in InsertDeleteCommands /\ ed.text # obs.before.text)
      => LET lines_before == LenLines(obs.before.text)
             lines_after == LenLines(ed.text)
             old == obs.effect.old
             new == obs.effect.new
         IN  /\ obs.effect.kind = "TextChanged"
             /\ ExactReplace(obs.before.text, ed.text, obs.effect.start, old, new)
             /\ new - old = lines_after - lines_before
             /\ OneCharacterChange =>
                   /\ lines_after = lines_before => (old = 1 /\ new = 1)
                   /\ lines_after = lines_before + 1 => new = old + 1
                   /\ lines_after = lines_before - 1 => old = new + 1

\* Backspace without a selection removes the line break before the cursor,
\* below the first line.
C16_Witness ==
    /\ KeyDone
    /\ KeyName = "DeleteLeft"
    /\ obs.before.selection_anchor = None
    /\ obs.before.cursor > 0
    /\ obs.before.text[obs.before.cursor] = LF
    /\ obs.effect.kind = "TextChanged"
    /\ obs.effect.start >= 1
    /\ obs.effect.old = 2

CursorCommands ==
    {"CursorUp", "CursorDown", "CursorLeft", "CursorRight", "CursorWordLeft",
     "CursorWordRight", "CursorHome", "CursorEnd", "CursorPageUp", "CursorPageDown"}

\* The offset of the first character of the line that holds offset c of t,
\* and the offset after the next line break at or after c (the end of the
\* text if there is none).
StartOfLineAt(t, c) ==
    LET S == {0} \cup {i \in 1 .. c : t[i] = LF}
    IN  CHOOSE s \in S : \A x \in S : x <= s
StartOfNextLineAt(t, c) ==
    LET S == {j \in c + 1 .. Len(t) : t[j] = LF}
    IN  IF S = {} THEN Len(t) ELSE CHOOSE s \in S : \A x \in S : s <= x

\* C17: CursorUp, CursorDown, CursorLeft, CursorRight, CursorWordLeft,
\* CursorWordRight, CursorHome, CursorEnd, CursorPageUp and CursorPageDown
\* always return CursorDirty and leave the document unchanged; SelectAll
\* and SelectLine return SelectionFixed, and handle_key_event does not run
\* the shift-driven selection toggle after them, so the anchor and the
\* cursor they set are exactly the selection that remains.
C17_CursorAndSelectEffects ==
    KeyDone =>
        LET t == obs.before.text
        IN  /\ KeyName \in CursorCommands =>
                  /\ obs.effect = [kind |-> "CursorDirty"]
                  /\ ed.text = t
            /\ KeyName = "SelectAll" =>
                  /\ obs.effect = [kind |-> "SelectionFixed"]
                  /\ ed.text = t
                  /\ ed.selection_anchor = 0
                  /\ ed.cursor = Len(t)
            /\ KeyName = "SelectLine" =>
                  /\ obs.effect = [kind |-> "SelectionFixed"]
                  /\ ed.text = t
                  /\ ed.selection_anchor = StartOfLineAt(t, obs.before.cursor)
                  /\ ed.cursor = StartOfNextLineAt(t, obs.before.cursor)

\* SelectLine below the first line, while another selection was open.
C17_Witness ==
    /\ KeyDone
    /\ KeyName = "SelectLine"
    /\ obs.before.selection_anchor # None
    /\ obs.before.selection_anchor # ed.selection_anchor
    /\ ed.selection_anchor > 0
    /\ ed.cursor > ed.selection_anchor

\* The lines handle_key_event marks for the TextChanged effect of the
\* state: from start_line to the end of the document when the height of
\* the span changed, the new span otherwise.
TextChangedLines ==
    IF obs.effect.kind # "TextChanged" THEN {}
    ELSE IF obs.delta # 0 THEN obs.effect.start .. LenLines(ed.text) - 1
    ELSE obs.effect.start .. obs.effect.start + obs.effect.new - 1

\* C18: after any key command whose effect is not None, the dirty set
\* contains the logical line that held the cursor before the command and
\* the logical line that holds it after the command, in addition to the
\* lines marked for a TextChanged effect.
C18_CursorLinesDirty ==
    (KeyDone /\ obs.effect.kind # "None")
      => /\ ed.halt = "none"
         /\ ed.is_dirty
         /\ CharToLine(obs.before.text, obs.before.cursor) \in ed.dirty_lines
         /\ CharToLine(ed.text, ed.cursor) \in ed.dirty_lines
         /\ TextChangedLines \subseteq ed.dirty_lines

\* An edit that changes the height of its span and moves the cursor to
\* another line, with a line below the span.
C18_Witness ==
    /\ KeyDone
    /\ obs.effect.kind = "TextChanged"
    /\ obs.delta # 0
    /\ CharToLine(obs.before.text, obs.before.cursor) # CharToLine(ed.text, ed.cursor)
    /\ obs.effect.start + obs.effect.new < LenLines(ed.text)
    /\ obs.effect.start + obs.effect.new \in ed.dirty_lines

\* The key event of the state was a navigation command with SHIFT held.
ShiftNavigation ==
    KeyDone /\ KeyName \in CursorCommands /\ "SHIFT" \in obs.ev.mods

\* C19: a navigation command executed with Shift held while no selection
\* exists sets the anchor to the cursor offset from before the move;
\* further Shift-navigation commands leave that anchor unchanged while the
\* cursor moves; key-release events and keys with no mapped command change
\* neither anchor nor cursor.
C19_ShiftNavigationAnchors ==
    obs.op = "key" =>
        /\ (ShiftNavigation /\ obs.before.selection_anchor = None)
              => ed.selection_anchor = obs.before.cursor
        /\ (ShiftNavigation /\ obs.before.selection_anchor # None)
              => ed.selection_anchor = obs.before.selection_anchor
        /\ (ShiftNavigation /\ KeyName = "CursorLeft")
              => ed.cursor = Max(obs.before.cursor - 1, 0)
        /\ (ShiftNavigation /\ KeyName = "CursorRight")
              => ed.cursor = Min(obs.before.cursor + 1, Len(ed.text))
        /\ (obs.ev.kind = "Release" \/ KeyCommand(obs.before.keymap, obs.ev) = NoCommand)
              => /\ ed.selection_anchor = obs.before.selection_anchor
                 /\ ed.cursor = obs.before.cursor

\* A second Shift-navigation: the anchor of the open selection stays where
\* it was while the cursor moves on.
C19_Witness ==
    /\ ShiftNavigation
    /\ obs.before.selection_anchor # None
    /\ obs.before.selection_anchor # obs.before.cursor
    /\ ed.cursor # obs.before.cursor
    /\ ed.selection_anchor = obs.before.selection_anchor

\* C20: after any navigation command executed without Shift and after any
\* command with a TextChanged effect the selection anchor is absent;
\* SelectAll and SelectLine leave a selection present; commands with the
\* effect None (TextCopy, Exit, unmapped keys) leave anchor and cursor
\* exactly as they were.
C20_AnchorAfterCommand ==
    KeyDone =>
        /\ (KeyName \in CursorCommands /\ "SHIFT" \notin obs.ev.mods)
              => ed.selection_anchor = None
        /\ obs.effect.kind = "TextChanged" => ed.selection_anchor = None
        /\ KeyName \in {"SelectAll", "SelectLine"} => ed.selection_anchor # None
        /\ obs.effect.kind = "None"
              => /\ ed.selection_anchor = obs.before.selection_anchor
                 /\ ed.cursor = obs.before.cursor

\* A navigation command without Shift moves the cursor and closes a
\* selection that was open.
C20_Witness ==
    /\ KeyDone
    /\ KeyName \in CursorCommands
    /\ "SHIFT" \notin obs.ev.mods
    /\ obs.before.selection_anchor # None
    /\ obs.before.selection_anchor # obs.before.cursor
    /\ ed.cursor # obs.before.cursor
    /\ ed.selection_anchor = None

(***************************************************************************)
(* Claims about the clipboard                                              *)
(***************************************************************************)
\* The key event of the state ran a clipboard command whose clipboard
\* access failed: execute_command returned Err.
ClipboardFailed == obs.op = "key" /\ obs.effect.kind = "Err"

\* C21: if clipboard access fails during TextCopy, TextCut or TextPaste,
\* with or without an active selection, the document, the cursor and the
\* selection anchor after the command are exactly what they were before it.
C21_FailedClipboardChangesNothing ==
    ClipboardFailed =>
        /\ ed.text = obs.before.text
        /\ ed.cursor = obs.before.cursor
        /\ ed.selection_anchor = obs.before.selection_anchor

\* C22: a clipboard failure is recoverable: the failing command is treated
\* as a no-op, the failure is returned as an error from execute_command,
\* and the event loop of run() keeps running and accepts the next input
\* event; run() is never ended by the Err of a clipboard call.
C22_ClipboardFailureKeepsRunning ==
    pc \in {"top", "read", "poll", "done"} => ed.halt # "error"

(***************************************************************************)
(* Claims about word navigation                                            *)
(***************************************************************************)
\* The character right after offset c of the document, and the one right
\* before it.
CharAfter(c) == ed.text[c + 1]
CharBefore(c) == ed.text[c]

\* Offset c is inside the document and the characters on both sides of it
\* are not blanks.
InteriorAwayFromWhitespace(c) ==
    /\ 0 < c
    /\ c < Len(ed.text)
    /\ ClassifyChar(CharBefore(c)) # "Whitespace"
    /\ ClassifyChar(CharAfter(c)) # "Whitespace"

\* A token starts at offset c: a character follows, it is not a blank, and
\* it is a line break or c is the start of the document or the character
\* before c is of another class.
TokenStartsAt(c) ==
    /\ c < Len(ed.text)
    /\ ClassifyChar(CharAfter(c)) # "Whitespace"
    /\ \/ c = 0
       \/ ClassifyChar(CharAfter(c)) = "Newline"
       \/ ClassifyChar(CharBefore(c)) # ClassifyChar(CharAfter(c))

\* C23 as stated: for every document and every interior cursor offset that
\* is not adjacent to whitespace, CursorWordRight followed by
\* CursorWordLeft returns the cursor to the original offset.
C23_Original ==
    (obs.op = "right-left" /\ InteriorAwayFromWhitespace(obs.origin))
      => ed.cursor = obs.origin

\* C23, amended: for every document and every cursor offset at which a
\* token starts (a word, a run of symbols or a line break), CursorWordRight
\* followed by CursorWordLeft returns the cursor to the original offset,
\* CursorWordRight having moved it to the right.
C23_RoundTripFromTokenStart ==
    (obs.op = "right-left" /\ TokenStartsAt(obs.origin))
      => /\ ed.cursor = obs.origin
         /\ obs.mid > obs.origin
         /\ ed.halt = "none"

\* The round trip from the start of a word of two or more characters, below
\* the start of the document.
C23_Witness ==
    /\ obs.op = "right-left"
    /\ TokenStartsAt(obs.origin)
    /\ obs.origin > 0
    /\ obs.mid >= obs.origin + 2
    /\ ed.cursor = obs.origin

\* The offset of the first character at or after offset c that is not a
\* blank, the end of the document if there is none.
EndOfBlanksFrom(c) ==
    LET S == {j \in c .. Len(ed.text) - 1 : ClassifyChar(ed.text[j + 1]) # "Whitespace"}
    IN  IF S = {} THEN Len(ed.text) ELSE CHOOSE j \in S : \A k \in S : j <= k

\* C24: CursorWordRight lands at the start of the next token: on the text
\* "foo bar" with the cursor at 0 it moves the cursor to 4, and when the
\* character next to the cursor is whitespace it stops at the first
\* character of the token that follows the whitespace run.
C24_WordRightToNextTokenStart ==
    obs.op = "right" =>
        /\ (ed.text = <<"f", "o", "o", " ", "b", "a", "r">> /\ obs.origin = 0)
              => ed.cursor = 4
        /\ (obs.origin < Len(ed.text) /\ ClassifyChar(CharAfter(obs.origin)) = "Whitespace")
              => ed.cursor = EndOfBlanksFrom(obs.origin)

\* C25: in CursorWordLeft and CursorWordRight a line break is never
\* consumed as part of a run: whenever the scan reaches a line break after
\* consuming at least one other character (for example a run of blanks
\* directly followed by a line break), the cursor stops before that line
\* break and does not cross it.
C25_NewlineNeverCrossed ==
    /\ (obs.op = "right" /\ obs.origin < Len(ed.text)
          /\ ClassifyChar(CharAfter(obs.origin)) # "Newline")
         => \A i \in obs.origin + 1 .. ed.cursor : ed.text[i] # LF
    /\ (obs.op = "left" /\ obs.origin > 0
          /\ ClassifyChar(CharBefore(obs.origin)) # "Newline")
         => \A i \in ed.cursor + 1 .. obs.origin : ed.text[i] # LF

(***************************************************************************)
(* A vertical move and the key event after it: CursorUp or CursorDown      *)
(* leaves the target column in tmp_x, and the next key event, read by the  *)
(* poll loop of run before the next redraw, finds it there.                *)
(***************************************************************************)
\* Documents of two or more visual rows at the content widths 2 and 3.
ColumnDocs ==
    {<<"a", "a", LF, "a">>, <<"a", LF, "a", "a">>, <<LF, "a">>,
     <<"a", "a", "a", "a">>, <<"a", " ", LF, LF>>}

VerticalKeys ==
    {Press("Up", {}), Press("Down", {}), Press("Up", {"SHIFT"}), Press("Down", {"SHIFT"})}

InitColumn ==
    /\ DirtyLinesUnused
    /\ \E rope \in ColumnDocs, cols \in KeyCols :
         \E cursor \in 0 .. Len(rope), anchor \in {None} \cup (0 .. Len(rope)) :
           ed = AtBlockingRead([RebuildHeightCache(FromRope(rope, cols, CacheRows))
                                  EXCEPT !.cursor = cursor,
                                         !.selection_anchor = anchor])
    /\ pc = "column"
    /\ obs = [op |-> "none"]

\* handle_event(event::read()?) with an Up or Down key event.
VerticalCall ==
    /\ pc = "column"
    /\ \E ev \in VerticalKeys :
         /\ ed' = HandleEvent(ed, ev, ClipOk(<<>>))
         /\ obs' = [op |-> "vertical", ev |-> ev]
    /\ pc' = "key"
    /\ UNCHANGED dlVars

NextColumn == VerticalCall \/ KeyCall
SpecColumn == InitColumn /\ [][NextColumn]_vars

\* The commands C26 lists: the horizontal moves and the edits.
HorizontalAndEditCommands ==
    {"InputChar", "InputEnter", "DeleteLeft", "DeleteRight", "DeleteWordLeft",
     "DeleteWordRight", "TextCut", "TextPaste", "CursorLeft", "CursorRight",
     "CursorWordLeft", "CursorWordRight", "CursorHome", "CursorEnd"}

\* C26: after every horizontal navigation command and every edit command
\* (InputChar, InputEnter, DeleteLeft/Right, DeleteWordLeft/Right, TextCut,
\* TextPaste, CursorLeft/Right, CursorWordLeft/Right, CursorHome/End) the
\* remembered target column tmp_x is unset, so that the next vertical move
\* takes its target column from the cursor's current visual column.
C26_TargetColumnUnset ==
    (KeyDone /\ KeyName \in HorizontalAndEditCommands) => ed.tmp_x = None

(***************************************************************************)
(* One key event under a merged keymap: bindings that merge_keymap can     *)
(* insert over default_keymap(), among them bindings for a character typed *)
(* without a modifier and with SHIFT.                                      *)
(***************************************************************************)
TypedBindings ==
    {Binding("Char", "a", {}, "Exit"), Binding("Char", "a", {"SHIFT"}, "SelectAll")}
OtherBindings ==
    {Binding("Tab", "", {}, "CursorEnd"), Binding("Up", "", {}, "CursorDown")}
Keymaps == {{}, TypedBindings, TypedBindings \cup OtherBindings}

InitKeymap ==
    /\ DirtyLinesUnused
    /\ \E rope \in ColumnDocs, cols \in KeyCols, keymap \in Keymaps :
         \E cursor \in 0 .. Len(rope), anchor \in {None, 0} :
           ed = AtBlockingRead([RebuildHeightCache(FromRope(rope, cols, CacheRows))
                                  EXCEPT !.cursor = cursor,
                                         !.selection_anchor = anchor,
                                         !.keymap = keymap])
    /\ pc = "key"
    /\ obs = [op |-> "none"]

NextKeymap == KeyCall
SpecKeymap == InitKeymap /\ [][NextKeymap]_vars

\* The key event of the state is a character typed with no modifier or
\* with SHIFT only.
TypedCharacter ==
    obs.ev.code = "Char" /\ obs.ev.mods \in {{}, {"SHIFT"}}

\* The keymap's entry for the exact (code, modifiers) pair of the key event
\* of the state, NoCommand when there is none.
ExactEntry ==
    KeymapGet(obs.before.keymap, obs.ev.code, obs.ev.ch, obs.ev.mods)

\* The editor is what handle_key_event leaves when it executes cmd for the
\* key event of the state.
Executed(cmd) ==
    ed = AfterCommand(ExecuteCommand(obs.before, cmd, obs.clip), "SHIFT" \in obs.ev.mods,
                      obs.before.cursor, CharToLine(obs.before.text, obs.before.cursor))

\* C27: a key event KeyCode::Char(c) whose modifier set is empty or exactly
\* SHIFT always executes InputChar(c), even when the keymap contains an
\* entry for that exact (code, modifiers) pair; every other key event
\* executes the keymap entry for its exact (code, modifiers) pair, or
\* nothing when there is none.
C27_TypedCharacterBeforeKeymap ==
    (obs.op = "key" /\ obs.ev.kind # "Release") =>
        /\ TypedCharacter
              => /\ Executed(InputChar(obs.ev.ch))
                 /\ obs.effect.kind = "TextChanged"
                 /\ ed.cursor > 0
                 /\ ed.text[ed.cursor] = obs.ev.ch
        /\ (~TypedCharacter /\ ExactEntry # NoCommand) => Executed(ExactEntry)
        /\ (~TypedCharacter /\ ExactEntry = NoCommand) => ed = obs.before

\* A typed "a" was inserted although the keymap binds that key to Exit.
C27_Witness ==
    /\ obs.op = "key"
    /\ obs.ev.kind # "Release"
    /\ TypedCharacter
    /\ ExactEntry = Cmd("Exit")
    /\ Len(ed.text) = Len(obs.before.text) + 1
    /\ ed.text[ed.cursor] = "a"
    /\ ~ed.should_quit

(***************************************************************************)
(* Claims about InputEnter, Resize and the order of update and query       *)
(***************************************************************************)
\* The display width of line i of t, its line break left out.
LineWidth(t, i) ==
    SumSeq([k \in 1 .. LenCharsWithoutEnding(Line(t, i)) |-> CharWidth(Line(t, i)[k])])

\* The key event of the state was InputEnter with no selection, and the
\* second of the two lines it made is shorter than the content width.
EnterSplitsLine ==
    /\ KeyDone
    /\ KeyName = "InputEnter"
    /\ obs.before.selection_anchor = None
    /\ ContentWidth(ed) = ContentWidth(obs.before)
    /\ LineWidth(ed.text, CharToLine(obs.before.text, obs.before.cursor) + 1) < ContentWidth(ed)

\* C28: when InputEnter with no selection splits one logical line into two
\* at an unchanged content width and the new second line is shorter than
\* the content width, the effect is TextChanged(line, 1, 2), the height
\* delta returned by the update is non-zero, and every line from the edit
\* line through the last line of the document is in the dirty set.
C28_EnterSplitsLine ==
    EnterSplitsLine =>
        LET line == CharToLine(obs.before.text, obs.before.cursor)
        IN  /\ obs.effect = TextChanged(line, 1, 2)
            /\ obs.delta # 0
            /\ line .. LenLines(ed.text) - 1 \subseteq ed.dirty_lines

\* The step handles the event ev in run(): handle_event(event::read()?) at
\* the blocking read or in the poll loop.
Handles(ev) ==
    /\ pc \in {"read", "poll"}
    /\ obs'.events = obs.events + 1
    /\ ed' = HandleEvent(ed, ev, ClipOk(<<>>))

\* The logical lines of e with a row in the viewport: the rows of the
\* lines are those of the document at the content width, the viewport
\* starts at the row of the scroll offset.
VisibleLines(e) ==
    LET rows == RebuildH(e.text, ContentWidth(e))
        top == rows[Min(e.scroll_offset.logical_line, LenLines(e.text)) + 1]
                 + e.scroll_offset.visual_offset_in_line
    IN  {i \in 0 .. LenLines(e.text) - 1 :
            rows[i + 1] < top + ContentHeight(e) /\ rows[i + 2] > top}

\* C29: after a Resize event the cache H equals what rebuild() computes for
\* the document at the new width and a full-viewport redraw is requested;
\* the request stays until a redraw pass takes it, and that pass draws
\* every visible logical line.
C29_ResizeRebuildsAndRedraws ==
    [][/\ \A ev \in ResizeEvents :
             Handles(ev) =>
               /\ ed'.cumulative_visual_heights = RebuildH(ed'.text, ContentWidth(ed'))
               /\ ed'.terminal_width = ev.column
               /\ ed'.full_redraw_request
       /\ (ed.full_redraw_request /\ ~ed'.full_redraw_request) =>
               /\ pc = "top"
               /\ VisibleLines(ed') \subseteq obs'.drawn]_vars

(***************************************************************************)
(* One input cycle of run() with handle_key_event in its three steps:      *)
(* execute_command, update_height_cache, the dirty marks.  obs.pending     *)
(* tells that the document was changed and the cache update for the        *)
(* change has not completed; obs.stale_read tells that H was read in that  *)
(* state.                                                                  *)
(***************************************************************************)
MaxCycleEvents == 2

\* Without the call of update_height_cache.
AfterExecute_NoUpdate(r) ==
    IF r.err \/ r.e.halt # "none" THEN "done" ELSE "mark"

\* Where handle_key_event goes on when execute_command has returned r: out
\* of run() with the Err, to update_height_cache for a TextChanged effect,
\* to the dirty marks otherwise.
AfterExecute(r) ==
    IF r.err \/ r.e.halt # "none" THEN "done"
    ELSE IF r.effect.kind = "TextChanged" THEN "update"
    ELSE "mark"

\* The handler of the event maps coordinates through H: screen_to_char_idx
\* for a mouse press or drag, get_visual_height_for_line in curor_move_up
\* and cursor_move_down.
ReadsH(keymap, ev) ==
    \/ ev.type = "Mouse" /\ ev.kind \in {"DownLeft", "DragLeft", "ScrollUp", "ScrollDown"}
    \/ /\ ev.type = "Key"
       /\ ev.kind # "Release"
       /\ KeyCommand(keymap, ev).name \in {"CursorUp", "CursorDown"}

KeyPresses == {ev \in Events : ev.type = "Key" /\ ev.kind # "Release"}

InitCycle ==
    /\ DirtyLinesUnused
    /\ \E setup \in InitialSetups : ed = FromRope(setup[1], setup[2][1], setup[2][2])
    /\ pc = "start"
    /\ obs = [events |-> 0, pending |-> FALSE, stale_read |-> FALSE, call |-> <<>>,
              effect |-> EffectNone, delta |-> 0, draining |-> FALSE]

\* The head of the loop: scroll_to_cursor, and the redraw if is_dirty; both
\* read H.
CycleTop ==
    /\ pc = "top"
    /\ ~ed.should_quit
    /\ LET scrolled == ScrollToCursor(ed)
       IN  ed' = IF scrolled.is_dirty
                 THEN [DrawUpdates(scrolled) EXCEPT !.is_dirty = FALSE]
                 ELSE scrolled
    /\ obs' = [obs EXCEPT !.stale_read = @ \/ obs.pending]
    /\ pc' = "read"
    /\ UNCHANGED dlVars

\* handle_key_event up to the return of execute_command.
ExecuteStep ==
    /\ pc \in {"read", "poll"}
    /\ obs.events < MaxCycleEvents
    /\ \E ev \in KeyPresses : \E clip \in ClipAnswers(ev) :
         LET r == RunKeyCommand(ed, ev, clip)
         IN  /\ ed' = IF r.err THEN ReturnErr(r.e) ELSE r.e
             /\ pc' = AfterExecute(r)
             /\ obs' = [events |-> obs.events + 1,
                        pending |-> obs.pending \/ r.e.text # ed.text,
                        stale_read |-> obs.stale_read \/ (ReadsH(ed.keymap, ev) /\ obs.pending),
                        call |-> <<ev, clip, ed>>,
                        effect |-> r.effect,
                        delta |-> 0,
                        draining |-> pc = "poll"]
    /\ UNCHANGED dlVars

\* let delta = self.update_height_cache(start, old_count, new_count)
UpdateStep ==
    /\ pc = "update"
    /\ LET u == UpdateHeightCache(ed, obs.effect.start, obs.effect.old, obs.effect.new)
       IN  /\ ed' = u.e
           /\ obs' = [obs EXCEPT !.pending = u.e.halt # "none", !.delta = u.delta]
           /\ pc' = IF u.e.halt # "none" THEN "done" ELSE "mark"
    /\ UNCHANGED dlVars

\* The rest of handle_key_event: the dirty lines of the text change, the
\* cursor lines and the selection; then run() goes on.
MarkStep ==
    /\ pc = "mark"
    /\ LET ev == obs.call[1]
           before == obs.call[3]
           marked == IF obs.effect.kind = "TextChanged"
                     THEN TextChangedDirty(ed, obs.effect.start, obs.effect.new, obs.delta)
                     ELSE ed
       IN  EventHandled(IF obs.effect.kind = "None" THEN ed
                        ELSE CursorDirtyStep(marked, obs.effect, "SHIFT" \in ev.mods,
                                 before.cursor, CharToLine(before.text, before.cursor)),
                        obs.draining)
    /\ UNCHANGED <<obs, dlVars>>

\* handle_event with an event that is not a key press.
OtherEvent ==
    /\ pc \in {"read", "poll"}
    /\ obs.events < MaxCycleEvents
    /\ \E ev \in Events \ KeyPresses :
         /\ EventHandled(HandleEvent(ed, ev, ClipOk(<<>>)), pc = "poll")
         /\ obs' = [obs EXCEPT !.events = @ + 1,
                               !.stale_read = @ \/ (ReadsH(ed.keymap, ev) /\ obs.pending),
                               !.call = <<>>]
    /\ UNCHANGED dlVars

NextCycle ==
    RunStart \/ CycleTop \/ LoopExit \/ ExecuteStep \/ UpdateStep \/ MarkStep
      \/ OtherEvent \/ PollEmpty
SpecCycle == InitCycle /\ [][NextCycle]_vars

\* C30: in every input cycle, for every edit command, update_height_cache
\* for that edit has completed before scroll_to_cursor or any other
\* coordinate query that reads H runs on the edited document: H is never
\* read between a change of the document and the matching cache update;
\* while an update is outstanding, run() is about to make it or has ended.
\* The three steps together leave what handle_key_event leaves.
C30_UpdateBeforeQuery ==
    /\ ~obs.stale_read
    /\ obs.pending => pc \in {"update", "done"}
    /\ (pc \in {"top", "poll"} /\ obs.call # <<>>)
         => ed = HandleKeyEvent(obs.call[3], obs.call[1], obs.call[2])

\* scroll_to_cursor has run on a document that the last key event changed
\* and whose cache update completed.
C30_Witness ==
    /\ pc = "read"
    /\ obs.call # <<>>
    /\ obs.effect.kind = "TextChanged"
    /\ obs.call[3].text # ed.text
    /\ ~obs.pending
    /\ ~obs.stale_read

(***************************************************************************)
(* chunk_by_width_cjk on its own: a line of narrow and wide characters,    *)
(* with or without its line break, cut at a width.                         *)
(***************************************************************************)
MaxChunkLen == 5
MaxChunkWidth == 4

\* The lines of up to n characters without a line break.
RECURSIVE ChunkContents(_)
ChunkContents(n) ==
    IF n = 0 THEN {<<>>}
    ELSE ChunkContents(n - 1)
           \cup {Append(l, c) : l \in ChunkContents(n - 1), c \in {"a", CJK}}

\* What Rope::line can return: the content, and the content with its line
\* break.
ChunkLines == ChunkContents(MaxChunkLen) \cup {Append(l, LF) : l \in ChunkContents(MaxChunkLen)}

InitChunk ==
    /\ DirtyLinesUnused
    /\ ed = <<>>
    /\ pc = "chunk"
    /\ \E line \in ChunkLines, w \in 0 .. MaxChunkWidth :
         obs = [op |-> "none", line |-> line, width |-> w, chunks |-> <<>>]

\* line.chunk_by_width_cjk(width), collected.
ChunkCall ==
    /\ pc = "chunk"
    /\ obs' = [obs EXCEPT !.op = "chunk", !.chunks = ChunkByWidthCjk(obs.line, obs.width)]
    /\ pc' = "chunked"
    /\ UNCHANGED <<ed, dlVars>>

NextChunk == ChunkCall
SpecChunk == InitChunk /\ [][NextChunk]_vars

\* The chunks of q, one after the other.
RECURSIVE Concat(_)
Concat(q) == IF q = <<>> THEN <<>> ELSE Head(q) \o Concat(Tail(q))

\* The width chunk_by_width_cjk counts for a chunk.
ChunkWidth(chunk) == SumSeq([k \in 1 .. Len(chunk) |-> CharWidth(chunk[k])])

\* C31: chunk_by_width_cjk(w) splits a line into consecutive chunks whose
\* concatenation is the line and packs greedily: for w >= 1 every chunk is
\* at most w wide unless it is a single character wider than w, and the
\* first character of the next chunk does not fit behind it; a non-empty
\* line yields no empty chunk, an empty line yields one row, and w = 0
\* yields exactly one row per line.
C31_ChunksPartitionLine ==
    obs.op = "chunk" =>
        LET chunks == obs.chunks
            w == obs.width
        IN  /\ Concat(chunks) = obs.line
            /\ w >= 1 =>
                 \A k \in 1 .. Len(chunks) :
                    /\ \/ ChunkWidth(chunks[k]) <= w
                       \/ Len(chunks[k]) = 1 /\ CharWidth(chunks[k][1]) > w
                    /\ k < Len(chunks)
                         => ChunkWidth(chunks[k]) + CharWidth(chunks[k + 1][1]) > w
            /\ obs.line # <<>> => \A k \in 1 .. Len(chunks) : chunks[k] # <<>>
            /\ obs.line = <<>> => Len(chunks) = 1
            /\ w = 0 => Len(chunks) = 1

\* A wide character took a row of width 1 for itself, between other rows.
C31_Witness ==
    /\ obs.op = "chunk"
    /\ obs.width = 1
    /\ Len(obs.chunks) >= 3
    /\ obs.chunks[2] = <<CJK>>
    /\ obs.chunks[1] = <<"a">>

(***************************************************************************)
(* A run of CursorUp / CursorDown commands from a cursor with no           *)
(* remembered column.                                                      *)
(***************************************************************************)
MaxMoves == 3

\* Documents with a short line between longer ones, a wrapped line, empty
\* lines and wide characters.
VerticalDocs ==
    {<<"a", "a", "a", LF, "a", LF, "a", "a", "a">>,
     <<"a", "a", LF, LF, "a", "a">>,
     <<"a", "a", "a", "a", "a">>,
     <<"a", CJK, LF, CJK, "a">>}

\* Terminal widths that give the content widths 2, 3 and 4.
VerticalCols == {10, 11, 12}

InitVertical ==
    /\ DirtyLinesUnused
    /\ \E rope \in VerticalDocs, cols \in VerticalCols :
         \E cursor \in 0 .. Len(rope) :
           ed = AtBlockingRead([RebuildHeightCache(FromRope(rope, cols, CacheRows))
                                  EXCEPT !.cursor = cursor])
    /\ pc = "vertical"
    /\ obs = [op |-> "none", moves |-> 0]

\* handle_event with an Up or Down key event, the next one of the run.
MoveCall ==
    /\ pc = "vertical"
    /\ obs.moves < MaxMoves
    /\ \E ev \in VerticalKeys :
         /\ ed' = HandleEvent(ed, ev, ClipOk(<<>>))
         /\ obs' = [op |-> "move", moves |-> obs.moves + 1, ev |-> ev, before |-> ed,
                    origin |-> IF obs.moves = 0 THEN ed ELSE obs.origin]
    /\ UNCHANGED <<pc, dlVars>>

NextVertical == MoveCall
SpecVertical == InitVertical /\ [][NextVertical]_vars

\* The visual position <<column, row>> of the cursor of e in its line.
CursorVisualPos(e) ==
    CharIdxToVisualPosInLine(e, CharToLine(e.text, e.cursor),
                             e.cursor - LineToChar(e.text, CharToLine(e.text, e.cursor)))

\* The rows of line y of e, each without a line break.
RowsOfLine(e, y) ==
    LET chunks == ChunkByWidthCjk(Line(e.text, y), ContentWidth(e))
    IN  [k \in 1 .. Len(chunks) |-> SelectSeq(chunks[k], LAMBDA c : c # LF)]

\* The row <<line, row in line>> a vertical move from e aims at, <<>> when
\* there is none above or below.
TargetRow(e, name) ==
    LET y == CharToLine(e.text, e.cursor)
        vy == CursorVisualPos(e)[2]
    IN  IF name = "CursorUp"
        THEN IF vy > 0 THEN <<y, vy - 1>>
             ELSE IF y > 0 THEN <<y - 1, Len(RowsOfLine(e, y - 1)) - 1>>
             ELSE <<>>
        ELSE IF vy < Len(RowsOfLine(e, y)) - 1 THEN <<y, vy + 1>>
             ELSE IF y < LenLines(e.text) - 1 THEN <<y + 1, 0>>
             ELSE <<>>

\* The move of the state landed on its target row, at column col or at the
\* end of the row's content when the row is shorter.
LandedAt(col) ==
    LET target == TargetRow(obs.before, KeyName)
        row == RowsOfLine(ed, target[1])[target[2] + 1]
    IN  IF target = <<>> THEN ed.cursor = obs.before.cursor
        ELSE /\ CharToLine(ed.text, ed.cursor) = target[1]
             /\ CursorVisualPos(ed)[2] = target[2]
             /\ CursorVisualPos(ed)[1] = Min(col, ChunkWidth(row))

\* C32: in a run of consecutive CursorUp/CursorDown commands, tmp_x is set
\* by the first one to the cursor's visual column and is not changed by the
\* later ones; each move lands on the target row at that column, or at the
\* end of the row's content when the row is shorter.
C32_VerticalRunKeepsColumn ==
    obs.op = "move" =>
        /\ ed.tmp_x = CursorVisualPos(obs.origin)[1]
        /\ LandedAt(ed.tmp_x)

(***************************************************************************)
(* Claims about dirty lines, clicks, redraws, Exit and bounds              *)
(***************************************************************************)
\* The lines that hold the cursor before and after the command of the
\* state.
CursorLines ==
    {CharToLine(obs.before.text, obs.before.cursor), CharToLine(ed.text, ed.cursor)}

\* C33: for a TextChanged(start, old, new) effect, if the update returns
\* delta # 0 then every logical line from start through the last line of
\* the document is marked dirty; if delta = 0 then exactly the lines
\* start .. start + new - 1 are marked for the text change, plus the
\* cursor's old and new lines.
C33_TextChangedDirtyLines ==
    (KeyDone /\ obs.effect.kind = "TextChanged" /\ ed.halt = "none")
      => /\ obs.delta # 0
              => obs.effect.start .. LenLines(ed.text) - 1 \subseteq ed.dirty_lines
         /\ obs.delta = 0
              => ed.dirty_lines
                   = obs.before.dirty_lines
                       \cup (obs.effect.start .. obs.effect.start + obs.effect.new - 1)
                       \cup CursorLines

\* An edit with delta = 0 left a line below its span unmarked.
C33_Witness ==
    /\ KeyDone
    /\ obs.effect.kind = "TextChanged"
    /\ ed.halt = "none"
    /\ obs.delta = 0
    /\ ed.text # obs.before.text
    /\ obs.effect.start + obs.effect.new < LenLines(ed.text)
    /\ LenLines(ed.text) - 1 \notin ed.dirty_lines

(***************************************************************************)
(* screen_to_char_idx on its own: a click at any cell of the terminal, on  *)
(* an editor whose scroll offset scroll_to_cursor has set.                 *)
(***************************************************************************)
ClickDocs == VerticalDocs \cup ColumnDocs

\* Terminal heights that give the content heights 1 and 2.
ClickRows == {2, 3}

InitClick ==
    /\ DirtyLinesUnused
    /\ \E rope \in ClickDocs, cols \in VerticalCols, rows \in ClickRows :
         \E cursor \in 0 .. Len(rope) :
           ed = AtBlockingRead([RebuildHeightCache(FromRope(rope, cols, rows))
                                  EXCEPT !.cursor = cursor])
    /\ pc = "click"
    /\ obs = [op |-> "none"]

\* screen_to_char_idx(x, y) for a cell of the terminal, the status bar row
\* and the last column included.
ClickCall ==
    /\ pc = "click"
    /\ \E x \in 0 .. ed.terminal_width - 1, y \in 0 .. ed.terminal_height - 1 :
         obs' = [op |-> "click", x |-> x, y |-> y, out |-> ScreenToCharIdx(ed, x, y)]
    /\ pc' = "clicked"
    /\ UNCHANGED <<ed, dlVars>>

NextClick == ClickCall
SpecClick == InitClick /\ [][NextClick]_vars

\* The absolute visual row of the click of the state.
ClickedAbsRow ==
    RebuildH(ed.text, ContentWidth(ed))[ed.scroll_offset.logical_line + 1]
      + ed.scroll_offset.visual_offset_in_line + obs.y

\* The logical line that owns absolute row r, the last line for a row below
\* the document.
OwnerOfRow(r) ==
    LET rows == RebuildH(ed.text, ContentWidth(ed))
        S == {i \in 0 .. LenLines(ed.text) - 1 : rows[i + 1] <= r /\ r < rows[i + 2]}
    IN  IF S = {} THEN LenLines(ed.text) - 1 ELSE CHOOSE i \in S : TRUE

\* The clicked row is a row of the document, and its content, without a
\* line break.
ClickOnDocument ==
    ClickedAbsRow < RebuildH(ed.text, ContentWidth(ed))[LenLines(ed.text) + 1]
ClickedRowContent ==
    LET line == OwnerOfRow(ClickedAbsRow)
    IN  RowsOfLine(ed, line)[ClickedAbsRow - RebuildH(ed.text, ContentWidth(ed))[line + 1] + 1]

\* C34: screen_to_char_idx(x, y) returns nothing when y is on or below the
\* status bar row; otherwise it returns an offset inside the logical line
\* that owns the clicked absolute row, between that line's start and its
\* content end: a click in the 7-column gutter gives the line start, and a
\* click to the right of the row's content gives the end of the line's
\* content.
C34_ClickToOffset ==
    obs.op = "click" =>
        LET line == OwnerOfRow(ClickedAbsRow)
            line_start == LineToChar(ed.text, line)
            content_end == line_start + LenCharsWithoutEnding(Line(ed.text, line))
        IN  IF obs.y >= ContentHeight(ed) THEN obs.out = None
            ELSE /\ obs.out # None
                 /\ line_start <= obs.out
                 /\ obs.out <= content_end
                 /\ (ClickOnDocument /\ obs.x < LINE_NUMBER_WIDTH) => obs.out = line_start
                 /\ (ClickOnDocument /\ obs.x >= LINE_NUMBER_WIDTH
                       /\ obs.x - LINE_NUMBER_WIDTH >= ChunkWidth(ClickedRowContent))
                      => obs.out = content_end


(***************************************************************************)
(* Editor::run with the terminal's event queue: events arrive at any time, *)
(* event::read takes the oldest one and blocks on an empty queue, and      *)
(* event::poll(0) tells whether the queue is empty.                        *)
(***************************************************************************)
BatchEvents ==
    {PressChar("a", {}), Press("Backspace", {}), Press("Left", {}), Press("Esc", {}),
     Press("Tab", {}), KeyEvent("Release", "Char", "a", {}),
     MouseEvent("DownLeft", 8, 0), ResizeEvent(10, 3), ResizeEvent(11, 3), FocusGained}

\* The event asks for a repaint: a key command with an effect other than
\* None, a mouse event with an arm in handle_event, or a Resize.
RequiresRepaint(e, ev) ==
    \/ ev.type = "Key" /\ KeyEffect(e, ev, ClipOk(<<>>)).kind \notin {"None", "Err"}
    \/ ev.type = "Mouse"
         /\ ev.kind \in {"DownLeft", "DragLeft", "UpLeft", "ScrollUp", "ScrollDown"}
    \/ ev.type = "Resize"

\* The key event runs Command::Exit.
RunsExit(e, ev) ==
    ev.type = "Key" /\ ev.kind # "Release" /\ KeyCommand(e.keymap, ev) = Cmd("Exit")

\* run() at the head of its loop for the first time.
InitBatch ==
    /\ DirtyLinesUnused
    /\ \E setup \in InitialSetups :
         ed = RebuildHeightCache(FromRope(setup[1], setup[2][1], setup[2][2]))
    /\ pc = "top"
    /\ obs = [events |-> 0, queue |-> <<>>, owed |-> FALSE, exit |-> <<>>]

\* The terminal queues one more event.
Arrive ==
    /\ pc \in {"top", "read", "poll"}
    /\ obs.events < MaxEvents
    /\ \E ev \in BatchEvents :
         obs' = [obs EXCEPT !.events = @ + 1, !.queue = Append(@, ev)]
    /\ UNCHANGED <<ed, pc, dlVars>>

\* The head of the loop: scroll_to_cursor, and the redraw if is_dirty.
BatchTop ==
    /\ pc = "top"
    /\ ~ed.should_quit
    /\ LET scrolled == ScrollToCursor(ed)
       IN  IF scrolled.is_dirty
           THEN /\ ed' = [DrawUpdates(scrolled) EXCEPT !.is_dirty = FALSE]
                /\ obs' = [obs EXCEPT !.owed = FALSE]
           ELSE /\ ed' = scrolled
                /\ obs' = obs
    /\ pc' = "read"
    /\ UNCHANGED dlVars

\* handle_event on the oldest queued event, and what it leaves to observe:
\* a repaint owed, and the editor before and after Command::Exit.
TakeEvent(draining) ==
    /\ obs.queue # <<>>
    /\ LET ev == Head(obs.queue)
           e1 == HandleEvent(ed, ev, ClipOk(<<>>))
       IN  /\ EventHandled(e1, draining)
           /\ obs' = [obs EXCEPT
                        !.queue = Tail(@),
                        !.owed = @ \/ RequiresRepaint(ed, ev),
                        !.exit = IF RunsExit(ed, ev)
                                 THEN <<[before |-> ed, after |-> e1,
                                         effect |-> KeyEffect(ed, ev, ClipOk(<<>>))]>>
                                 ELSE @]
    /\ UNCHANGED dlVars

\* handle_event(event::read()?) at the head of the loop's body.
BatchRead ==
    /\ pc = "read"
    /\ TakeEvent(FALSE)

\* event::poll reports an event in the drain loop.
BatchPoll ==
    /\ pc = "poll"
    /\ TakeEvent(TRUE)

\* event::poll reports no event: back to the head of the loop.
BatchPollEmpty ==
    /\ pc = "poll"
    /\ obs.queue = <<>>
    /\ pc' = "top"
    /\ UNCHANGED <<ed, obs, dlVars>>

NextBatch == Arrive \/ BatchTop \/ LoopExit \/ BatchRead \/ BatchPoll \/ BatchPollEmpty
SpecBatch == InitBatch /\ [][NextBatch]_vars

\* run() is in event::read with nothing queued.
Blocked == pc = "read" /\ obs.queue = << >>

\* C35: in the run loop, every event that requires repainting (a key
\* command with a non-None effect, a mouse event, or a Resize) is followed
\* by one redraw pass that empties the dirty set before the loop blocks
\* waiting for an input event that is not already queued, whatever other
\* events are queued in the same batch.
C35_RepaintBeforeBlocking ==
    Blocked => (~obs.owed /\ ed.dirty_lines = {} /\ ~ed.full_redraw_request)


\* C36: Exit is a normal transition: it returns effect None, changes
\* neither document, cursor nor selection, and the run loop then terminates
\* with success; once Exit has been executed no later event, including
\* events already queued in the same batch, changes the document or the
\* cursor.
C36_ExitEndsEditing ==
    obs.exit # << >> =>
        LET exit == obs.exit[1]
        IN  /\ exit.effect = EffectNone
            /\ exit.after.halt = "none"
            /\ exit.after.text = exit.before.text
            /\ exit.after.cursor = exit.before.cursor
            /\ exit.after.selection_anchor = exit.before.selection_anchor
            /\ pc = "done" => ed.halt = "none"
            /\ ed.text = exit.after.text
            /\ ed.cursor = exit.after.cursor


\* C37: in no reachable state does a command cause an out-of-bounds access
\* to H or to the document: for every sequence of key commands (including
\* TextPaste of text ending in a newline or pasted over a multi-line
\* selection, followed by further edits), update_height_cache only indexes
\* H at positions below its length and the editor does not abort.
C37_NoOutOfBoundsAccess == ed.halt # "panic"


(***************************************************************************)
(* char_idx_to_visual_pos_in_line on its own, next to the height           *)
(* rebuild_height_cache stores for the same line.                          *)
(***************************************************************************)
InitPos ==
    /\ DirtyLinesUnused
    /\ ed = << >>
    /\ pc = "pos"
    /\ \E line \in ChunkLines, width \in 1 .. MaxChunkWidth :
         \E offset \in 0 .. LenCharsWithoutEnding(line) :
           obs = [op |-> "none", line |-> line, width |-> width, offset |-> offset,
                  pos |-> <<0, 0>>, height |-> 0]

\* char_idx_to_visual_pos_in_line(line_idx, char_offset) at content width
\* obs.width, and the height of the line in H.
PosCall ==
    /\ pc = "pos"
    /\ obs' = [obs EXCEPT
                 !.op = "pos",
                 !.pos = VisualPosLoop(obs.line, 0, obs.offset, obs.width, 0, 0),
                 !.height = Max(1, Len(ChunkByWidthCjk(obs.line, obs.width)))]
    /\ pc' = "placed"
    /\ UNCHANGED <<ed, dlVars>>

NextPos == PosCall
SpecPos == InitPos /\ [][NextPos]_vars

\* C38: the cursor's visual position agrees with the layout cache: for
\* every logical line, every content width >= 1 and every character offset
\* from 0 to the line's content length, the row returned by
\* char_idx_to_visual_pos_in_line is strictly less than that line's height
\* in H (the number of chunks chunk_by_width_cjk yields), including lines
\* that contain width-2 characters.
C38_CursorRowInsideLine ==
    obs.op = "pos" => obs.pos[2] < obs.height


\* The offset the cursor command `name` would move to from the state the
\* key event of the state was handled in.
WordTarget(name) == ExecuteCommand(obs.before, Cmd(name), ClipOk(<< >>)).e.cursor

\* C39: with no active selection, DeleteWordRight removes exactly the
\* characters between the cursor and the offset CursorWordRight would move
\* to from the same state, and DeleteWordLeft removes exactly the characters
\* between the offset CursorWordLeft would move to and the cursor.
C39_DeleteWordFollowsWordMove ==
    (KeyDone /\ obs.before.selection_anchor = None)
      => /\ KeyName = "DeleteWordRight"
              => /\ ed.text = Remove(obs.before.text, obs.before.cursor,
                                     WordTarget("CursorWordRight"))
                 /\ ed.cursor = obs.before.cursor
         /\ KeyName = "DeleteWordLeft"
              => /\ ed.text = Remove(obs.before.text, WordTarget("CursorWordLeft"),
                                     obs.before.cursor)
                 /\ ed.cursor = WordTarget("CursorWordLeft")


(***************************************************************************)
(* One event, a key or a mouse event, on an editor with any cursor and any *)
(* selection inside its document.                                          *)
(***************************************************************************)
\* handle_event(event::read()?) with a mouse event, at the blocking read.
MouseCall ==
    /\ pc = "key"
    /\ \E ev \in MouseEvents :
         /\ ed' = HandleEvent(ed, ev, ClipOk(<< >>))
         /\ obs' = [op |-> "mouse", ev |-> ev, before |-> ed]
    /\ pc' = "keyed"
    /\ UNCHANGED dlVars

NextSelect == KeyCall \/ MouseCall
SpecSelect == InitKeys /\ [][NextSelect]_vars

\* C40: in every reachable state the selection anchor, when present,
\* satisfies 0 <= anchor <= document.char_count(): no command or mouse
\* event shortens the document while leaving an anchor that points past its
\* end, so the selected range [min(anchor, cursor), max(anchor, cursor)) is
\* always a valid range of the document.
C40_AnchorInsideDocument ==
    ed.selection_anchor # None
      => /\ 0 <= ed.selection_anchor
         /\ ed.selection_anchor <= LenChars(ed.text)
         /\ GetSelectionRange(ed)[1] >= 0
         /\ GetSelectionRange(ed)[2] <= LenChars(ed.text)

\* A key shortened the document to below the anchor of the selection it
\* was handled with.
C40_Witness ==
    /\ obs.op = "key"
    /\ ed.halt = "none"
    /\ obs.before.selection_anchor # None
    /\ obs.before.selection_anchor > LenChars(ed.text)
    /\ obs.before.cursor < obs.before.selection_anchor
====
